---------------------------- MODULE Spec2Model ----------------------------
(***************************************************************************)
(* A model of the hybrid retrieval pipeline of bible-rag                   *)
(* (backend/search.py, backend/cache.py, backend/reranker.py) and of the   *)
(* LLM answer subsystem (backend/llm.py, backend/llm_batcher.py).          *)
(*                                                                         *)
(* Several state machines share the module:                                *)
(*   SpecRRF         rrf_merge and the fusion step on every bounded input; *)
(*   Spec            search_verses calls of one client through the cache;  *)
(*   SpecSignals     search_verses over every store, setting and fault;    *)
(*   SpecCacheFaults search_verses through a failing cache;                *)
(*   SpecConcurrent  two clients on one cache fingerprint;                 *)
(*   SpecKey         generate_cache_key on two argument lists;             *)
(*   SpecCache       CacheClient on a Redis server with expiry;            *)
(*   SpecRateLimit   _check_rate_limit while time passes;                  *)
(*   SpecStream      generate_contextual_response_stream;                  *)
(*   SpecBatcher     LLMBatcher (SpecBatcherFair: on a running event       *)
(*                   loop).                                                *)
(*                                                                         *)
(* RRF scores are floats 1.0 / (rank + k) in the source.  They are kept    *)
(* here as exact rationals: an integer numerator over the common           *)
(* denominator RrfDen(k).  Rounding of IEEE doubles is not modelled.       *)
(***************************************************************************)
EXTENDS Integers, Sequences, FiniteSets, TLC

VARIABLES
    rrf_pc,          \* "start" before rrf_merge is applied, "done" after
    rrf_k,           \* the argument k of rrf_merge
    ranked_lists,    \* the argument of rrf_merge: a sequence of ranked lists
    rrf_out,         \* the value rrf_merge returned
    fuse_out,        \* the value of step 4 of search_verses on the same lists
    cache,           \* Redis "search:<key>" entries: cache key -> stored response
    embeddings_count,\* number of rows of the embeddings table
    settings,        \* the Settings the process runs with
    store,           \* what the verse store and the models answer for the query
    req,             \* per client: the search_verses call it is in
    key_pc,          \* "start" before generate_cache_key is applied, "done" after
    key_args,        \* the arguments of two generate_cache_key calls
    key_out,         \* the keys the two calls returned
    redis,           \* the Redis server of CacheClient: key -> [value, ttl]
    cc_ret,          \* the last CacheClient call and what it returned
    cc_last,         \* per fingerprint: the last write CacheClient made
    now,             \* time.time(), in seconds
    rate_limit_state,\* llm._rate_limit_state: provider -> [count, reset_time]
    admitted,        \* per provider: the times of the calls answered True
                     \* during the last minute
    stream,          \* the generate_contextual_response_stream call in progress
    batcher,         \* the LLMBatcher: its queue, its background task, the
                     \* batches it took and the tasks of the batch in flight
    batch_requests   \* the BatchRequest of every submit_request call

rrfVars == <<rrf_pc, rrf_k, ranked_lists, rrf_out, fuse_out>>

searchVars == <<cache, embeddings_count, settings, store, req>>

keyVars == <<key_pc, key_args, key_out>>

vars == <<rrf_pc, rrf_k, ranked_lists, rrf_out, fuse_out,
          cache, embeddings_count, settings, store, req,
          key_pc, key_args, key_out, redis, cc_ret, cc_last,
          now, rate_limit_state, admitted, stream, batcher, batch_requests>>

clientVars == <<redis, cc_ret, cc_last>>

llmVars == <<now, rate_limit_state, admitted, stream>>

batcherVars == <<batcher, batch_requests>>

(***************************************************************************)
(* Passage references (ref_key = "book_id:chapter:verse").                 *)
(***************************************************************************)
Gen11 == "Gen 1:1"
John316 == "John 3:16"
Rom828 == "Rom 8:28"

Refs == {Gen11, John316, Rom828}

\* the most ranked lists handed to one rrf_merge call
MaxLists == 3

\* the default smoothing constant of rrf_merge
RRF_K == 60

(***************************************************************************)
(* Generic helpers.                                                        *)
(***************************************************************************)
Range(s) == {s[i] : i \in DOMAIN s}

NoDup(s) == \A i, j \in DOMAIN s : i # j => s[i] # s[j]

Min(a, b) == IF a <= b THEN a ELSE b

\* s[:n] of Python
Take(s, n) == SubSeq(s, 1, Min(Len(s), n))

\* all sequences over S of length at most n
SeqsUpTo(S, n) == UNION {[1..m -> S] : m \in 0..n}

\* the references of a list of (ref_key, score) pairs, in order
RefsOf(pairs) == [i \in DOMAIN pairs |-> pairs[i][1]]

\* a ranked list of (ref_key, score): the native scores of a signal are
\* positive and descending; `scale` varies them
ScoredList(refs, scale) ==
    [i \in DOMAIN refs |-> <<refs[i], scale * (Len(refs) - i + 1)>>]

(***************************************************************************)
(* rrf_merge.  The dict `scores` is a sequence of <<ref_key, score>> in    *)
(* insertion order (Python dicts keep insertion order, and an update of    *)
(* an existing key keeps the key's position).                              *)
(***************************************************************************)
RECURSIVE Product(_, _)
Product(lo, hi) == IF lo > hi THEN 1 ELSE lo * Product(lo + 1, hi)

\* common denominator of every 1/(rank + k) with 0 <= rank < |Refs|
RrfDen(k) == Product(k, k + Cardinality(Refs) - 1)

DictHas(scores, key) == \E i \in DOMAIN scores : scores[i][1] = key

DictGet(scores, key, default) ==
    IF DictHas(scores, key)
    THEN scores[CHOOSE i \in DOMAIN scores : scores[i][1] = key][2]
    ELSE default

DictSet(scores, key, val) ==
    IF DictHas(scores, key)
    THEN [i \in DOMAIN scores |->
             IF scores[i][1] = key THEN <<key, val>> ELSE scores[i]]
    ELSE Append(scores, <<key, val>>)

\* 1.0 / (rank + k), as a numerator over RrfDen(k)
RrfWeightOneBased(rank, k) == RrfDen(k) \div (rank + 1 + k)

RrfWeight(rank, k) == RrfDen(k) \div (rank + k)

\* scores[ref_key] = 1.0 / (rank + k): the accumulation lost
RrfAccumulateOverwrite(scores, ref_key, rank, k) ==
    DictSet(scores, ref_key, RrfWeight(rank, k))

\* scores[ref_key] = scores.get(ref_key, 0.0) + 1.0 / (rank + k)
RrfAccumulate(scores, ref_key, rank, k) ==
    DictSet(scores, ref_key, DictGet(scores, ref_key, 0) + RrfWeight(rank, k))

\* for rank, (ref_key, _score) in enumerate(ranked_list), from position i on
RECURSIVE RrfScanList(_, _, _, _)
RrfScanList(scores, ranked_list, i, k) ==
    IF i > Len(ranked_list) THEN scores
    ELSE RrfScanList(RrfAccumulate(scores, ranked_list[i][1], i - 1, k),
                     ranked_list, i + 1, k)

\* for ranked_list in ranked_lists, from list n on
RECURSIVE RrfScanAll(_, _, _, _)
RrfScanAll(scores, lists, n, k) ==
    IF n > Len(lists) THEN scores
    ELSE RrfScanAll(RrfScanList(scores, lists[n], 1, k), lists, n + 1, k)

\* insert pair into a list sorted by score descending, before its equals
InsertBeforeEquals(sorted, pair) ==
    LET before == {i \in DOMAIN sorted : sorted[i][2] > pair[2]}
        n == Cardinality(before)
    IN SubSeq(sorted, 1, n) \o <<pair>> \o SubSeq(sorted, n + 1, Len(sorted))

\* insert pair into a list sorted by score descending, after its equals
InsertAfterEquals(sorted, pair) ==
    LET before == {i \in DOMAIN sorted : sorted[i][2] >= pair[2]}
        n == Cardinality(before)
    IN SubSeq(sorted, 1, n) \o <<pair>> \o SubSeq(sorted, n + 1, Len(sorted))

\* sorted(items, key=lambda x: x[1], reverse=True): stable, descending
RECURSIVE SortedByScoreDesc(_)
SortedByScoreDesc(items) ==
    IF items = <<>> THEN <<>>
    ELSE InsertAfterEquals(SortedByScoreDesc(SubSeq(items, 1, Len(items) - 1)),
                           items[Len(items)])

\* sorted(..., reverse=False)
RECURSIVE SortedByScoreAsc(_)
SortedByScoreAsc(items) ==
    IF items = <<>> THEN <<>>
    ELSE LET rest == SortedByScoreAsc(SubSeq(items, 1, Len(items) - 1))
             pair == items[Len(items)]
             n == Cardinality({i \in DOMAIN rest : rest[i][2] <= pair[2]})
         IN SubSeq(rest, 1, n) \o <<pair>> \o SubSeq(rest, n + 1, Len(rest))

rrf_merge_unsorted(lists, k) == RrfScanAll(<<>>, lists, 1, k)

rrf_merge_ascending(lists, k) == SortedByScoreAsc(RrfScanAll(<<>>, lists, 1, k))

rrf_merge(lists, k) == SortedByScoreDesc(RrfScanAll(<<>>, lists, 1, k))

(***************************************************************************)
(* Step 4 of search_verses: fuse the ranked lists that were collected.     *)
(***************************************************************************)
FuseStep(lists, k) ==
    IF Len(lists) > 1
    THEN [merged |-> rrf_merge(lists, k), search_method |-> "hybrid-rrf"]
    ELSE IF Len(lists) > 0
         THEN [merged |-> lists[1], search_method |-> "semantic"]
         ELSE [merged |-> <<>>, search_method |-> "none"]

(***************************************************************************)
(* The cache key (CacheClient.generate_cache_key).  A query is a sequence  *)
(* of characters; md5 is taken to be injective, so the key is the hashed   *)
(* string's three parts.                                                   *)
(***************************************************************************)
LowerChar(c) == IF c = "A" THEN "a" ELSE c

\* str.lower()
Lower(s) == [i \in DOMAIN s |-> LowerChar(s[i])]

RECURSIVE LStrip(_)
LStrip(s) == IF s # <<>> /\ Head(s) = " " THEN LStrip(Tail(s)) ELSE s

RECURSIVE RStrip(_)
RStrip(s) ==
    IF s # <<>> /\ s[Len(s)] = " " THEN RStrip(SubSeq(s, 1, Len(s) - 1)) ELSE s

\* str.strip()
Strip(s) == RStrip(LStrip(s))

\* the order of Python's string comparison on the abbreviations used
AbbrevRank(t) == IF t = "KRV" THEN 1 ELSE IF t = "NIV" THEN 2 ELSE 3

\* sorted(translations)
RECURSIVE SortedAbbrevs(_)
SortedAbbrevs(ts) ==
    IF ts = <<>> THEN <<>>
    ELSE LET rest == SortedAbbrevs(SubSeq(ts, 1, Len(ts) - 1))
             t == ts[Len(ts)]
             n == Cardinality({i \in DOMAIN rest : AbbrevRank(rest[i]) <= AbbrevRank(t)})
         IN SubSeq(rest, 1, n) \o <<t>> \o SubSeq(rest, n + 1, Len(rest))

\* the order of Python's string comparison on the filter keys
FilterKeyRank(key) == IF key = "books" THEN 1 ELSE IF key = "genre" THEN 2 ELSE 3

\* the items of a dict sorted by key (json.dumps(..., sort_keys=True))
RECURSIVE SortedByKey(_)
SortedByKey(items) ==
    IF items = <<>> THEN <<>>
    ELSE LET rest == SortedByKey(SubSeq(items, 1, Len(items) - 1))
             it == items[Len(items)]
             n == Cardinality({i \in DOMAIN rest :
                                  FilterKeyRank(rest[i][1]) <= FilterKeyRank(it[1])})
         IN SubSeq(rest, 1, n) \o <<it>> \o SubSeq(rest, n + 1, Len(rest))

\* the filters given as they are, keys in insertion order
FiltersAsGiven(filters) == IF filters.none THEN <<>> ELSE filters.items

\* filters: [none |-> TRUE, items |-> <<>>] is None, otherwise a dict: its
\* <<key, value>> items in insertion order;
\* json.dumps(filters or {}, sort_keys=True)
FiltersNormalized(filters) == IF filters.none THEN <<>> ELSE SortedByKey(filters.items)

NoFilters == [none |-> TRUE, items |-> <<>>]

generate_cache_key_with_limit(query, translations, filters, max_results) ==
    <<Lower(Strip(query)), SortedAbbrevs(translations),
      FiltersNormalized(filters), max_results>>

\* the translations hashed in the order given
generate_cache_key_keeps_order(query, translations, filters) ==
    <<Lower(Strip(query)), translations, FiltersNormalized(filters)>>

generate_cache_key(query, translations, filters) ==
    <<Lower(Strip(query)), SortedAbbrevs(translations), FiltersNormalized(filters)>>

(***************************************************************************)
(* Python values and JSON.  A Python value is a record tagged by its type; *)
(* a dict is the sequence of its <<key, value>> items in insertion order.  *)
(* A JSON document is a record tagged by its JSON type.  json.dumps turns  *)
(* lists and tuples into arrays and dict keys into strings; json.loads     *)
(* gives lists and dicts with str keys back.                               *)
(***************************************************************************)
PyNone == [t |-> "None"]
PyBool(b) == [t |-> "bool", v |-> b]
PyInt(n) == [t |-> "int", v |-> n]
PyStr(str) == [t |-> "str", v |-> str]
PyList(xs) == [t |-> "list", v |-> xs]
PyDict(items) == [t |-> "dict", v |-> items]

\* the JSON object key json.dumps writes for a dict key
JsonKey(key) ==
    CASE key.t = "str" -> key.v
      [] key.t = "int" -> ToString(key.v)
      [] key.t = "bool" -> IF key.v THEN "true" ELSE "false"
      [] key.t = "None" -> "null"

RECURSIVE json_dumps(_)
json_dumps(value) ==
    CASE value.t = "None" -> [j |-> "null"]
      [] value.t = "bool" -> [j |-> "boolean", v |-> value.v]
      [] value.t = "int" -> [j |-> "number", v |-> value.v]
      [] value.t = "str" -> [j |-> "string", v |-> value.v]
      [] value.t \in {"list", "tuple"} ->
             [j |-> "array", v |-> [i \in DOMAIN value.v |-> json_dumps(value.v[i])]]
      [] value.t = "dict" ->
             [j |-> "object",
              v |-> [i \in DOMAIN value.v |->
                        <<JsonKey(value.v[i][1]), json_dumps(value.v[i][2])>>]]

\* the dict built from items read in order: a repeated key keeps its place
\* and takes the later value
RECURSIVE DictFromItems(_)
DictFromItems(items) ==
    IF items = <<>> THEN <<>>
    ELSE DictSet(DictFromItems(SubSeq(items, 1, Len(items) - 1)),
                 items[Len(items)][1], items[Len(items)][2])

RECURSIVE json_loads(_)
json_loads(doc) ==
    CASE doc.j = "null" -> PyNone
      [] doc.j = "boolean" -> PyBool(doc.v)
      [] doc.j = "number" -> PyInt(doc.v)
      [] doc.j = "string" -> PyStr(doc.v)
      [] doc.j = "array" -> PyList([i \in DOMAIN doc.v |-> json_loads(doc.v[i])])
      [] doc.j = "object" ->
             PyDict(DictFromItems([i \in DOMAIN doc.v |->
                                      <<PyStr(doc.v[i][1]), json_loads(doc.v[i][2])>>]))

(***************************************************************************)
(* CacheClient over a Redis server.  redis maps a key <<"search", F>> or    *)
(* <<"stats", F>> to [value, ttl]: ttl is the time the key has left, -1    *)
(* for a key that never expires.  fail_at = n makes the n-th Redis command *)
(* of a call raise redis.ConnectionError or redis.TimeoutError; 0 is no    *)
(* failure.                                                                *)
(***************************************************************************)
RedisHas(db, key) == key \in DOMAIN db

\* SET key value (no expiry)
RedisSet(db, key, value) ==
    [k \in DOMAIN db \cup {key} |-> IF k = key THEN [value |-> value, ttl |-> -1] ELSE db[k]]

\* SETEX key ttl value
RedisSetex(db, key, ttl, value) ==
    [k \in DOMAIN db \cup {key} |-> IF k = key THEN [value |-> value, ttl |-> ttl] ELSE db[k]]

\* HSET key mapping: the fields written are all the fields of the hash
RedisHset(db, key, hash) ==
    IF RedisHas(db, key) THEN [db EXCEPT ![key].value = hash] ELSE RedisSet(db, key, hash)

\* EXPIRE key ttl
RedisExpire(db, key, ttl) ==
    IF RedisHas(db, key) THEN [db EXCEPT ![key].ttl = ttl] ELSE db

\* HINCRBY key hits 1: creates the hash when the key is missing
RedisHincrbyHits(db, key) ==
    IF RedisHas(db, key)
    THEN [db EXCEPT ![key].value.hits = @ + 1]
    ELSE RedisSet(db, key, [query |-> "", hits |-> 1])

\* DEL of every key of the kinds given
RedisDelKinds(db, kinds) == [k \in {k \in DOMAIN db : k[1] \notin kinds} |-> db[k]]

\* one unit of time passes: a key whose time is up is gone
RedisTick(db) ==
    [k \in {k \in DOMAIN db : db[k].ttl # 1} |->
        IF db[k].ttl > 1 THEN [db[k] EXCEPT !.ttl = @ - 1] ELSE db[k]]

\* settings.cache_ttl, in units of the model's clock
DefaultTtl == 2

\* the entry stored by SET, without a time to live
cache_results_no_expiry(db, cache_key, results, query_text, ttl_arg, fail_at) ==
    IF fail_at = 1 THEN [db |-> db, ret |-> FALSE]
    ELSE LET db1 == RedisSet(db, <<"search", cache_key>>, json_dumps(results))
         IN IF fail_at = 2 THEN [db |-> db1, ret |-> FALSE]
            ELSE LET db2 == RedisHset(db1, <<"stats", cache_key>>,
                                      [query |-> query_text, hits |-> 0])
                 IN IF fail_at = 3 THEN [db |-> db2, ret |-> FALSE]
                    ELSE [db |-> db2, ret |-> TRUE]

\* CacheClient.cache_results: ttl_arg = 0 stands for ttl=None
cache_results(db, cache_key, results, query_text, ttl_arg, fail_at) ==
    LET ttl == IF ttl_arg = 0 THEN DefaultTtl ELSE ttl_arg
    IN IF fail_at = 1 THEN [db |-> db, ret |-> FALSE]
       ELSE LET db1 == RedisSetex(db, <<"search", cache_key>>, ttl, json_dumps(results))
            IN IF fail_at = 2 THEN [db |-> db1, ret |-> FALSE]
               ELSE LET db2 == RedisHset(db1, <<"stats", cache_key>>,
                                         [query |-> query_text, hits |-> 0])
                    IN IF fail_at = 3 THEN [db |-> db2, ret |-> FALSE]
                       ELSE [db |-> RedisExpire(db2, <<"stats", cache_key>>, ttl),
                             ret |-> TRUE]

\* what a CacheClient getter returns: None, or a value
ReturnsNone == [some |-> FALSE]
Returns(value) == [some |-> TRUE, value |-> value]

\* CacheClient.get_cached_results
get_cached_results(db, cache_key, fail_at) ==
    IF fail_at = 1 \/ ~RedisHas(db, <<"search", cache_key>>)
    THEN [db |-> db, ret |-> ReturnsNone]
    ELSE IF fail_at = 2 THEN [db |-> db, ret |-> ReturnsNone]
    ELSE [db |-> RedisHincrbyHits(db, <<"stats", cache_key>>),
          ret |-> Returns(json_loads(db[<<"search", cache_key>>].value))]

\* CacheClient.clear_search_cache: KEYS search:*, KEYS stats:*, DEL
clear_search_cache(db, fail_at) ==
    IF fail_at # 0 THEN [db |-> db, ret |-> 0]
    ELSE [db |-> RedisDelKinds(db, {"search", "stats"}),
          ret |-> Cardinality({k \in DOMAIN db : k[1] \in {"search", "stats"}})]

NoWrite == [kind |-> "none"]

Fingerprints == {"f1", "f2"}

ClientIdle ==
    /\ redis = <<>>
    /\ cc_ret = [op |-> "none"]
    /\ cc_last = [f \in Fingerprints |-> NoWrite]

(***************************************************************************)
(* llm._check_rate_limit and the streaming generators of llm.py.  Time is  *)
(* in seconds.  The requests-per-minute settings are scaled down.          *)
(***************************************************************************)
\* the length of the rate limiter's window, in seconds
RateWindow == 60

\* settings.gemini_rpm and settings.groq_rpm, scaled
GeminiRpm == 1
GroqRpm == 2

Providers == {"gemini", "groq"}

Rpm == [provider \in Providers |-> IF provider = "gemini" THEN GeminiRpm ELSE GroqRpm]

\* the counter reset when a minute has passed since reset_time
RateStateAt(state, current_time) ==
    IF current_time - state.reset_time >= RateWindow
    THEN [count |-> 0, reset_time |-> current_time]
    ELSE state

\* _check_rate_limit(provider, limit) on the provider's state: the state
\* it leaves and the value it returns
check_rate_limit(state, current_time, limit) ==
    LET st == RateStateAt(state, current_time)
    IN IF st.count >= limit
       THEN [state |-> st, ret |-> FALSE]
       ELSE [state |-> [st EXCEPT !.count = @ + 1], ret |-> TRUE]

\* the admissions of the provider that are less than a minute old
RecentAdmissions(times, current_time) ==
    SelectSeq(times, LAMBDA t : current_time - t < RateWindow)

\* the generate_contextual_response_stream call:
\*   pc           "idle", "groq" before the Groq generator starts, "groq_stream"
\*                while it streams, "gemini", "gemini_stream", "done";
\*   out          what the call has yielded so far: "groq" and "gemini" stand
\*                for a token of that provider, "None" for a yielded None;
\*   first_chunk  the flag of that name;
\*   groq, gemini how the provider's generator ended, "not tried" before
NoStream ==
    [pc |-> "idle", verses |-> FALSE, groq_key |-> FALSE, gemini_key |-> FALSE,
     out |-> <<>>, first_chunk |-> TRUE, groq |-> "not tried", gemini |-> "not tried"]

\* Gemini is tried whatever Groq emitted
AfterGroqAlwaysFallsBack(st, how) ==
    [st EXCEPT !.groq = how, !.pc = "gemini"]

\* the Groq generator is exhausted or yielded None: return if a chunk was
\* passed on, otherwise fall back to Gemini
AfterGroq(st, how) ==
    [st EXCEPT !.groq = how, !.pc = IF st.first_chunk THEN "gemini" ELSE "done"]

\* the Gemini generator is exhausted or yielded None
AfterGemini(st, how) == [st EXCEPT !.gemini = how, !.pc = "done"]

\* the tokens of the provider yielded so far
TokensOf(st, provider) == Len(SelectSeq(st.out, LAMBDA item : item = provider))

\* time.time() is far more than a minute past reset_time = 0 when the
\* process starts
LlmIdle ==
    /\ now = RateWindow
    /\ rate_limit_state = [provider \in Providers |-> [count |-> 0, reset_time |-> 0]]
    /\ admitted = [provider \in Providers |-> <<>>]
    /\ stream = NoStream

(***************************************************************************)
(* LLMBatcher (llm_batcher.py).  Requests are numbered in the order they   *)
(* are submitted.  The batcher runs on one asyncio event loop: a step of   *)
(* the model is the code between two awaits.  The lock is never contended  *)
(* (no await inside either `async with self.lock` body), so the append of  *)
(* submit_request and the slicing of _process_batches are atomic.          *)
(*   batcher.task      "none" before start(), "sleep" while the processor  *)
(*                     waits for the batch window, "gather" while it       *)
(*                     awaits the tasks of a batch, "stopped" after the    *)
(*                     task was cancelled;                                 *)
(*   batcher.inflight  per request of the batch in flight: "created" (the  *)
(*                     task has not run yet), "running" (it awaits the     *)
(*                     model call), "done";                                *)
(*   batcher.batches   every batch taken so far, in order.                 *)
(***************************************************************************)
\* the most submit_request calls
MaxRequests == 3

\* settings.max_batch_size, scaled
MaxBatchSize == 2

Requests == 1..MaxRequests

NewRequest == [pc |-> "new", completed |-> FALSE, result |-> FALSE, error |-> FALSE]

BatcherIdle ==
    /\ batcher = [queue |-> <<>>, task |-> "none", inflight |-> <<>>, batches |-> <<>>]
    /\ batch_requests = [r \in Requests |-> NewRequest]

\* the batch is sliced off but the queue keeps it
TakeBatchKeepsQueue(queue, size) ==
    [batch |-> SubSeq(queue, 1, Min(size, Len(queue))), queue |-> queue]

\* batch = self.queue[:size]; self.queue = self.queue[size:]
TakeBatch(queue, size) ==
    [batch |-> SubSeq(queue, 1, Min(size, Len(queue))),
     queue |-> SubSeq(queue, Min(size, Len(queue)) + 1, Len(queue))]

\* the number of requests submitted so far
Submitted == Cardinality({r \in Requests : batch_requests[r].pc # "new"})

(***************************************************************************)
(* The verse store.  Gen 1:1 and John 3:16 exist in both translations,     *)
(* Rom 8:28 in NIV only.                                                   *)
(***************************************************************************)
TranslationsInDb == {"NIV", "KRV"}

VerseRows ==
    {<<Gen11, "NIV">>, <<Gen11, "KRV">>, <<John316, "NIV">>, <<John316, "KRV">>,
     <<Rom828, "NIV">>}

HasRow(ref, translation_ids) == \E t \in translation_ids : <<ref, t>> \in VerseRows

\* DISTINCT ON (book_id, chapter, verse) ... ORDER BY score DESC keeps one row
\* per reference: the row of the translation that scores best for the signal
WinnerRow(ref, translation_ids, prefer) ==
    IF prefer \in translation_ids /\ <<ref, prefer>> \in VerseRows
    THEN prefer
    ELSE CHOOSE t \in translation_ids : <<ref, t>> \in VerseRows

\* the rows a ranked query returns: the hits that have a row in the
\* requested translations, best first, LIMIT :limit
QueryRows(hits, translation_ids, limit) ==
    ScoredList(Take(SelectSeq(hits, LAMBDA ref : HasRow(ref, translation_ids)), limit), 1)

\* _vector_search
vector_search(hits, translation_ids, limit) == QueryRows(hits, translation_ids, limit)

\* ts_rank of the verse for the query: at least 2 for a lexical hit, best
\* first.  For a verse the tsquery does not match, PostgreSQL's ts_rank is 0
\* when the tsquery is one term and 1e-20 when it is an AND of terms;
\* unmatched_rank is that value, 1 standing for 1e-20.
TsRank(lexical, unmatched_rank, ref) ==
    IF ref \in Range(lexical)
    THEN Len(lexical) + 2 - (CHOOSE i \in DOMAIN lexical : lexical[i] = ref)
    ELSE unmatched_rank

\* the CTE ranked_verses: the verses of the requested translations whose
\* text matches the tsquery or contains the search string (ILIKE)
RankedVerses(lexical, substring, translation_ids) ==
    SelectSeq(lexical \o SelectSeq(<<Gen11, John316, Rom828>>,
                                   LAMBDA ref : ref \in substring \ Range(lexical)),
              LAMBDA ref : HasRow(ref, translation_ids))

\* the outer query without its WHERE rank > 0
fulltext_query_keeps_unranked(lexical, substring, unmatched_rank, translation_ids, limit) ==
    ScoredList(Take(RankedVerses(lexical, substring, translation_ids), limit), 1)

\* the full-text query of _fulltext_search and of fulltext_search_verses:
\* SELECT * FROM ranked_verses WHERE rank > 0 ORDER BY rank DESC LIMIT :limit
fulltext_query(lexical, substring, unmatched_rank, translation_ids, limit) ==
    ScoredList(Take(SelectSeq(RankedVerses(lexical, substring, translation_ids),
                              LAMBDA ref : TsRank(lexical, unmatched_rank, ref) > 0),
                    limit), 1)

\* _fulltext_search
fulltext_search(lexical, substring, unmatched_rank, translation_ids, limit) ==
    fulltext_query(lexical, substring, unmatched_rank, translation_ids, limit)

(***************************************************************************)
(* reranker.rerank: score every candidate, sort by score descending        *)
(* (stable), keep top_k.                                                   *)
(***************************************************************************)
rerank_no_cut(candidates, top_k) ==
    SortedByScoreDesc([i \in DOMAIN candidates |->
                          <<candidates[i][1], store.rerank_score[candidates[i][1]]>>])

rerank(candidates, top_k) ==
    Take(SortedByScoreDesc([i \in DOMAIN candidates |->
                               <<candidates[i][1], store.rerank_score[candidates[i][1]]>>]),
         top_k)

(***************************************************************************)
(* search_verses.  A call is the record req[p]:                            *)
(*   pc        "idle", then "translations", "count", "fulltext" or         *)
(*             "hybrid" while the call runs, "done" when it has ended;     *)
(*   trace     the collaborators called so far, in order;                  *)
(*   fault     which collaborator calls of the hybrid pipeline raised;     *)
(*   cache_fault  how the cache read and the cache write failed;           *)
(*   index_at_start  the embeddings count when the call began;             *)
(*   outcome   "returned" or "raised" once done;                           *)
(*   response  the dict returned.                                          *)
(* A response is [results, search_metadata, cached_key]; cached_key says   *)
(* whether the dict has a top-level "cached" entry.  A result item has     *)
(* cross_references / original set to TRUE when the dict has that key.     *)
(***************************************************************************)
NoResponse == [results |-> <<>>, search_metadata |-> [none |-> TRUE], cached_key |-> FALSE]

NoFault ==
    [embed |-> FALSE, vector |-> FALSE, fulltext |-> FALSE, rerank |-> FALSE,
     expansions |-> {}]

\* how the call's cache read and cache write failed: "none", or
\* "connection" / "timeout" (redis.ConnectionError, redis.TimeoutError, which
\* CacheClient catches), or "response" (another redis.RedisError, such as
\* the ResponseError of a server that refuses the command)
NoCacheFault == [read |-> "none", write |-> "none"]

IdleCall ==
    [pc |-> "idle", query |-> <<>>, translations |-> <<>>, max_results |-> 0,
     filters |-> NoFilters, include_original |-> FALSE, include_cross_refs |-> FALSE,
     use_cache |-> FALSE, expanded_queries |-> <<>>, cache_key |-> <<>>,
     translation_ids |-> {}, count_read |-> 0, index_at_start |-> 0, trace |-> <<>>,
     fault |-> NoFault, cache_fault |-> NoCacheFault, lists |-> <<>>, merged |-> <<>>, outcome |-> "pending",
     response |-> NoResponse]

\* the translation whose row scores best for the vector / full-text signal
VectorBest == "KRV"
FulltextBest == "NIV"

\* cache.get_cached_results: the stored response, or none
CacheHas(key) == key \in DOMAIN cache

\* cache.cache_results: SETEX search:<key>
CacheSet(key, response) ==
    [k \in DOMAIN cache \cup {key} |-> IF k = key THEN response ELSE cache[k]]

CacheDrop(key) == [k \in DOMAIN cache \ {key} |-> cache[k]]

\* one entry of `results`
ResultItem(r, ref, score, translations) ==
    [ref |-> ref, translations |-> translations, relevance_score |-> score,
     cross_references |-> r.include_cross_refs, original |-> r.include_original]

(***************************************************************************)
(* fulltext_search_verses: the full-text-only path.                        *)
(***************************************************************************)
FulltextOnlyRows(r) ==
    fulltext_query(store.fulltext, store.substring, store.unmatched_rank,
                   r.translation_ids, r.max_results)

FulltextOnlyResponse(r) ==
    LET rows == FulltextOnlyRows(r)
        results == [i \in DOMAIN rows |->
                       ResultItem(r, rows[i][1], rows[i][2],
                                  {WinnerRow(rows[i][1], r.translation_ids, FulltextBest)})]
    IN [results |-> results,
        search_metadata |-> [total_results |-> Len(results),
                             embedding_model |-> "None",
                             search_method |-> "full-text",
                             cached |-> FALSE],
        cached_key |-> FALSE]

(***************************************************************************)
(* The hybrid pipeline (steps 1 to 6 of search_verses).  `fault` says      *)
(* which collaborator calls of this request raise: the embedder, one       *)
(* retrieval query, the reranker.  A fault is the failure of one signal    *)
(* while the store as a whole answers; a store that cannot be reached at   *)
(* all (the translation lookup, the count, the single query of the         *)
(* full-text-only path failing) ends any call with an exception and is     *)
(* not modelled.                                                           *)
(***************************************************************************)
InternalLimit(r) == r.max_results * settings.overretrieve_factor

VectorList(r) == vector_search(store.vector, r.translation_ids, InternalLimit(r))

FulltextList(r) ==
    IF settings.enable_hybrid_search
    THEN fulltext_search(store.fulltext, store.substring, store.unmatched_rank,
                         r.translation_ids, InternalLimit(r))
    ELSE <<>>

\* one failing expansion ends the loop: the try block around the whole loop
ExpansionListAbortsLoop(r, fault, i) ==
    IF \E j \in fault.expansions : j <= i THEN <<>>
    ELSE vector_search(store.expansion[r.expanded_queries[i]], r.translation_ids,
                       InternalLimit(r))

\* the list of expanded query i; a failure is caught and the query skipped
ExpansionList(r, fault, i) ==
    IF i \in fault.expansions THEN <<>>
    ELSE vector_search(store.expansion[r.expanded_queries[i]], r.translation_ids,
                       InternalLimit(r))

\* ranked_lists: every signal that returned rows, in the order they ran
CollectedLists(r, fault) ==
    SelectSeq(<<VectorList(r), FulltextList(r)>>
                  \o [i \in 1..Len(r.expanded_queries) |-> ExpansionList(r, fault, i)],
              LAMBDA l : l # <<>>)

\* all_row_data[ref]["translation_id"]: the row of the first signal that
\* returned the reference
RowTranslation(r, ref) ==
    IF ref \in Range(RefsOf(VectorList(r)))
    THEN WinnerRow(ref, r.translation_ids, VectorBest)
    ELSE IF ref \in Range(RefsOf(FulltextList(r)))
         THEN WinnerRow(ref, r.translation_ids, FulltextBest)
         ELSE WinnerRow(ref, r.translation_ids, VectorBest)

\* step 4b: rerank the top of the fused ranking, or cut it to max_results
RerankCalled(merged) ==
    /\ settings.enable_reranking
    /\ merged # <<>>
    /\ Take(merged, Min(Len(merged), settings.rerank_top_n)) # <<>>

\* a failed rerank falls back to the candidates it was given
RankStepFallbackToCandidates(r, fault, fused) ==
    LET merged == fused.merged
        candidates == Take(merged, Min(Len(merged), settings.rerank_top_n))
    IN IF RerankCalled(merged) /\ ~fault.rerank
       THEN [top_refs |-> rerank(candidates, r.max_results),
             search_method |-> fused.search_method \o "+rerank"]
       ELSE [top_refs |-> IF RerankCalled(merged) THEN candidates
                          ELSE Take(merged, r.max_results),
             search_method |-> fused.search_method]

\* "+rerank" appended before the reranker is called
RankStepMarksBeforeCall(r, fault, fused) ==
    LET merged == fused.merged
        candidates == Take(merged, Min(Len(merged), settings.rerank_top_n))
    IN IF RerankCalled(merged)
       THEN [top_refs |-> IF fault.rerank THEN Take(merged, r.max_results)
                          ELSE rerank(candidates, r.max_results),
             search_method |-> fused.search_method \o "+rerank"]
       ELSE [top_refs |-> Take(merged, r.max_results),
             search_method |-> fused.search_method]

RankStep(r, fault, fused) ==
    LET merged == fused.merged
        candidates == Take(merged, Min(Len(merged), settings.rerank_top_n))
    IN IF RerankCalled(merged) /\ ~fault.rerank
       THEN [top_refs |-> rerank(candidates, r.max_results),
             search_method |-> fused.search_method \o "+rerank"]
       ELSE [top_refs |-> Take(merged, r.max_results),
             search_method |-> fused.search_method]

\* the results listed in canonical book order instead of ranking order
AssembleResultsInBookOrder(r, top_refs) ==
    LET in_book_order ==
            SelectSeq(<<Gen11, John316, Rom828>>, LAMBDA ref : ref \in Range(RefsOf(top_refs)))
        ScoreOf(ref) == top_refs[CHOOSE i \in DOMAIN top_refs : top_refs[i][1] = ref][2]
    IN [i \in DOMAIN in_book_order |->
           ResultItem(r, in_book_order[i], ScoreOf(in_book_order[i]),
                      {t \in r.translation_ids : <<in_book_order[i], t>> \in VerseRows})]

\* steps 5 and 6: one item per top reference, in the order of top_refs, with
\* the text of every requested translation that has the verse
AssembleResults(r, top_refs) ==
    [i \in DOMAIN top_refs |->
        ResultItem(r, top_refs[i][1], top_refs[i][2],
                   {RowTranslation(r, top_refs[i][1])}
                       \cup {t \in r.translation_ids : <<top_refs[i][1], t>> \in VerseRows})]

HybridResponse(r, ranked) ==
    LET results == AssembleResults(r, ranked.top_refs)
    IN [results |-> results,
        search_metadata |-> [total_results |-> Len(results),
                             embedding_model |-> "intfloat/multilingual-e5-large",
                             search_method |-> ranked.search_method,
                             expanded_queries |-> r.expanded_queries,
                             cached |-> FALSE],
        cached_key |-> FALSE]

\* the collaborators the pipeline calls, in order, up to the first call
\* that raises out of search_verses
HybridTrace(r, fault, rerank_called) ==
    <<"embed">>
    \o (IF fault.embed THEN <<>>
        ELSE <<"vector">>
             \o (IF fault.vector THEN <<>>
                 ELSE (IF settings.enable_hybrid_search THEN <<"fulltext">> ELSE <<>>)
                      \o (IF settings.enable_hybrid_search /\ fault.fulltext THEN <<>>
                          ELSE [i \in 1..Len(r.expanded_queries) |-> "expansion"]
                               \o (IF rerank_called THEN <<"rerank">> ELSE <<>>)
                               \o (IF r.use_cache THEN <<"cache_set">> ELSE <<>>))))

\* embed_query, _vector_search and _fulltext_search on the original query are
\* called outside any try block
HybridRaises(fault) ==
    \/ fault.embed
    \/ fault.vector
    \/ settings.enable_hybrid_search /\ fault.fulltext

(***************************************************************************)
(* The steps of one search_verses call.  D is the domain the inputs of     *)
(* the specification are drawn from.                                       *)
(***************************************************************************)
Clients == {"c1", "c2"}

ExpQueries == {"e1", "e2"}

\* the fault records of a call with n expanded queries, over the kinds in D
FaultsOf(D, n) ==
    {f \in [embed : BOOLEAN, vector : BOOLEAN, fulltext : BOOLEAN, rerank : BOOLEAN,
            expansions : SUBSET (1..n)] :
        /\ f.embed => "embed" \in D.faults
        /\ f.vector => "vector" \in D.faults
        /\ f.fulltext => "fulltext" \in D.faults
        /\ f.rerank => "rerank" \in D.faults
        /\ f.expansions # {} => "expansion" \in D.faults}

\* the ways get_cached_results may fail in a call
CacheReadFaults(D, use_cache) ==
    IF use_cache THEN {"none"} \cup D.cache_faults ELSE {"none"}

\* the ways cache_results may end in a call: <<fault, written>>.  A failed
\* call may or may not have stored the entry (SETEX comes first, HSET and
\* EXPIRE on the stats key follow); search_verses calls it only with
\* use_cache
CacheWriteOutcomes(D, use_cache) ==
    IF use_cache
    THEN {<<"none", TRUE>>} \cup (D.cache_faults \X BOOLEAN)
    ELSE {<<"none", FALSE>>}

\* what cache_results does to a call that built `response`: an exception
\* the CacheClient does not catch leaves search_verses
AfterCacheWrite(r, response, trace, write) ==
    [r EXCEPT !.pc = "done",
              !.outcome = IF write[1] = "response" THEN "raised" ELSE "returned",
              !.response = IF write[1] = "response" THEN NoResponse ELSE response,
              !.cache_fault = [@ EXCEPT !.write = write[1]],
              !.trace = trace]

\* the cache asked whether it has the key and then asked for it
CallReadsTwice(p, D) ==
    /\ req[p].pc \in {"idle", "done"}
    /\ \E query \in D.queries, translations \in D.translations,
          max_results \in D.max_results, flags \in D.flags,
          use_cache \in D.use_cache, expanded_queries \in D.expanded_queries :
          \E read_fault \in CacheReadFaults(D, use_cache) :
          LET key == generate_cache_key(query, translations, NoFilters)
              r == [IdleCall EXCEPT
                       !.query = query, !.translations = translations,
                       !.max_results = max_results,
                       !.include_original = flags[1], !.include_cross_refs = flags[2],
                       !.use_cache = use_cache, !.expanded_queries = expanded_queries,
                       !.cache_key = key,
                       !.index_at_start = embeddings_count,
                       !.cache_fault = [read |-> read_fault, write |-> "none"],
                       !.trace = IF use_cache THEN <<"cache_get">> ELSE <<>>]
          IN IF read_fault = "response"
             THEN req' = [req EXCEPT ![p] = [r EXCEPT !.pc = "done", !.outcome = "raised"]]
             ELSE IF use_cache /\ read_fault = "none" /\ CacheHas(key)
             THEN req' = [req EXCEPT ![p] =
                             [r EXCEPT !.pc = "done", !.outcome = "returned",
                                       !.trace = <<"cache_get", "cache_get">>,
                                       !.response = [cache[key] EXCEPT !.cached_key = TRUE]]]
             ELSE req' = [req EXCEPT ![p] = [r EXCEPT !.pc = "translations"]]
    /\ UNCHANGED <<cache, embeddings_count, settings, store, rrfVars, keyVars, clientVars, llmVars, batcherVars>>

\* lines 748-759: build the cache key and look the response up
Call(p, D) ==
    /\ req[p].pc \in {"idle", "done"}
    /\ \E query \in D.queries, translations \in D.translations,
          max_results \in D.max_results, flags \in D.flags,
          use_cache \in D.use_cache, expanded_queries \in D.expanded_queries :
          \E read_fault \in CacheReadFaults(D, use_cache) :
          LET key == generate_cache_key(query, translations, NoFilters)
              r == [IdleCall EXCEPT
                       !.query = query, !.translations = translations,
                       !.max_results = max_results,
                       !.include_original = flags[1], !.include_cross_refs = flags[2],
                       !.use_cache = use_cache, !.expanded_queries = expanded_queries,
                       !.cache_key = key,
                       !.index_at_start = embeddings_count,
                       !.cache_fault = [read |-> read_fault, write |-> "none"],
                       !.trace = IF use_cache THEN <<"cache_get">> ELSE <<>>]
          IN IF read_fault = "response"
             THEN req' = [req EXCEPT ![p] = [r EXCEPT !.pc = "done", !.outcome = "raised"]]
             ELSE IF use_cache /\ read_fault = "none" /\ CacheHas(key)
             THEN req' = [req EXCEPT ![p] =
                             [r EXCEPT !.pc = "done", !.outcome = "returned",
                                       !.response = [cache[key] EXCEPT !.cached_key = TRUE]]]
             ELSE req' = [req EXCEPT ![p] = [r EXCEPT !.pc = "translations"]]
    /\ UNCHANGED <<cache, embeddings_count, settings, store, rrfVars, keyVars, clientVars, llmVars, batcherVars>>

\* the check of `if not translation_ids` left out
ResolveTranslationsNoCheck(p) ==
    /\ req[p].pc = "translations"
    /\ req' = [req EXCEPT ![p] =
                   [@ EXCEPT !.pc = "count", !.trace = Append(@, "translations"),
                             !.translation_ids =
                                 {t \in Range(req[p].translations) : t \in TranslationsInDb}]]
    /\ UNCHANGED <<cache, embeddings_count, settings, store, rrfVars, keyVars, clientVars, llmVars, batcherVars>>

\* lines 761-779: resolve the abbreviations; none valid ends the call
ResolveTranslations(p) ==
    /\ req[p].pc = "translations"
    /\ LET r == req[p]
           ids == {t \in Range(r.translations) : t \in TranslationsInDb}
           trace == Append(r.trace, "translations")
       IN IF ids = {}
          THEN req' = [req EXCEPT ![p] =
                          [r EXCEPT !.pc = "done", !.trace = trace, !.outcome = "returned",
                                    !.response =
                                        [results |-> <<>>,
                                         search_metadata |->
                                             [total_results |-> 0,
                                              error |-> "No valid translations found"],
                                         cached_key |-> FALSE]]]
          ELSE req' = [req EXCEPT ![p] =
                          [r EXCEPT !.pc = "count", !.trace = trace,
                                    !.translation_ids = ids]]
    /\ UNCHANGED <<cache, embeddings_count, settings, store, rrfVars, keyVars, clientVars, llmVars, batcherVars>>

\* the path chosen by a setting instead of the count
CountEmbeddingsBySetting(p) ==
    /\ req[p].pc = "count"
    /\ req' = [req EXCEPT ![p] =
                   [@ EXCEPT !.pc = IF settings.enable_hybrid_search
                                    THEN "hybrid" ELSE "fulltext",
                             !.count_read = embeddings_count,
                             !.trace = Append(@, "count")]]
    /\ UNCHANGED <<cache, embeddings_count, settings, store, rrfVars, keyVars, clientVars, llmVars, batcherVars>>

\* lines 781-785: count the embeddings and choose the path
CountEmbeddings(p) ==
    /\ req[p].pc = "count"
    /\ req' = [req EXCEPT ![p] =
                   [@ EXCEPT !.pc = IF embeddings_count = 0 THEN "fulltext" ELSE "hybrid",
                             !.count_read = embeddings_count,
                             !.trace = Append(@, "count")]]
    /\ UNCHANGED <<cache, embeddings_count, settings, store, rrfVars, keyVars, clientVars, llmVars, batcherVars>>

\* lines 786-798 and fulltext_search_verses
FulltextOnly(p, D) ==
    /\ req[p].pc = "fulltext"
    /\ \E write \in CacheWriteOutcomes(D, req[p].use_cache) :
          LET r == req[p]
              response == FulltextOnlyResponse(r)
              trace == r.trace \o <<"fulltext">>
                           \o (IF r.use_cache THEN <<"cache_set">> ELSE <<>>)
          IN /\ req' = [req EXCEPT ![p] = AfterCacheWrite(r, response, trace, write)]
             /\ cache' = IF write[2] THEN CacheSet(r.cache_key, response) ELSE cache
    /\ UNCHANGED <<embeddings_count, settings, store, rrfVars, keyVars, clientVars, llmVars, batcherVars>>

\* lines 800-958: retrieve, fuse, rerank, assemble, write the cache
Hybrid(p, D) ==
    /\ req[p].pc = "hybrid"
    /\ \E fault \in FaultsOf(D, Len(req[p].expanded_queries)),
          write \in CacheWriteOutcomes(D, req[p].use_cache) :
          LET r == req[p]
              lists == CollectedLists(r, fault)
              fused == FuseStep(lists, settings.rrf_k)
              ranked == RankStep(r, fault, fused)
              response == HybridResponse(r, ranked)
              trace == r.trace \o HybridTrace(r, fault, RerankCalled(fused.merged))
          IN IF HybridRaises(fault)
             THEN /\ write = <<"none", r.use_cache>>
                  /\ req' = [req EXCEPT ![p] =
                                [r EXCEPT !.pc = "done", !.outcome = "raised",
                                          !.trace = trace, !.fault = fault]]
                  /\ cache' = cache
             ELSE /\ req' = [req EXCEPT ![p] =
                                AfterCacheWrite([r EXCEPT !.fault = fault,
                                                          !.lists = lists,
                                                          !.merged = fused.merged],
                                                response, trace, write)]
                  /\ cache' = IF write[2] THEN CacheSet(r.cache_key, response) ELSE cache
    /\ UNCHANGED <<embeddings_count, settings, store, rrfVars, keyVars, clientVars, llmVars, batcherVars>>

\* a cache entry reaches its TTL, or the search cache is flushed
ExpireCache ==
    /\ \E key \in DOMAIN cache : cache' = CacheDrop(key)
    /\ UNCHANGED <<embeddings_count, settings, store, req, rrfVars, keyVars, clientVars, llmVars, batcherVars>>

\* the ingestion scripts fill the embeddings table
PopulateIndex ==
    /\ embeddings_count = 0
    /\ embeddings_count' = 1
    /\ UNCHANGED <<cache, settings, store, req, rrfVars, keyVars, clientVars, llmVars, batcherVars>>

SearchInit(D) ==
    /\ cache = <<>>
    /\ embeddings_count = 0
    /\ settings \in D.settings
    /\ store \in D.stores
    /\ req = [p \in Clients |-> IdleCall]
    /\ rrf_pc = "off"
    /\ rrf_k = RRF_K
    /\ ranked_lists = <<>>
    /\ rrf_out = <<>>
    /\ fuse_out = [merged |-> <<>>, search_method |-> "none"]
    /\ key_pc = "off"
    /\ key_args = <<>>
    /\ key_out = <<>>
    /\ ClientIdle
    /\ LlmIdle
    /\ BatcherIdle

\* one step of one call
RequestStep(D) ==
    \/ \E p \in D.clients : Call(p, D)
    \/ \E p \in D.clients : ResolveTranslations(p)
    \/ \E p \in D.clients : CountEmbeddings(p)
    \/ \E p \in D.clients : FulltextOnly(p, D)
    \/ \E p \in D.clients : Hybrid(p, D)

(***************************************************************************)
(* The settings and stores tried.  enable_hybrid_search, enable_reranking, *)
(* rerank_top_n, overretrieve_factor and rrf_k are read from Settings.     *)
(***************************************************************************)
\* the most results one call may ask for
MaxResults == 2

\* the most expanded queries handed to one call
MaxExpanded == 2

OverretrieveFactor == 2

SettingsChoices ==
    {st \in [enable_hybrid_search : BOOLEAN, enable_reranking : BOOLEAN,
             rerank_top_n : {1, 3}, overretrieve_factor : {OverretrieveFactor},
             rrf_k : {RRF_K}] :
        ~st.enable_reranking => st.rerank_top_n = 1}

\* the reranker puts Rom 8:28 first and John 3:16 last
RerankScores == [ref \in Refs |->
                    IF ref = Rom828 THEN 3 ELSE IF ref = Gen11 THEN 2 ELSE 1]

\* the lexical hits of full-text search, best first, with the verses whose
\* text contains the search string and the ts_rank of an unmatched verse
FulltextChoices ==
    {<<f, {}, 0>> : f \in {<<>>, <<Gen11>>, <<John316, Rom828>>}}
        \cup {<<f, {Gen11, Rom828}, 0>> : f \in {<<>>, <<Gen11>>}}
        \cup {<<<<>>, {Gen11, Rom828}, 1>>}

\* per signal, the references that match the query, best first
StoreChoices ==
    {[vector |-> v, fulltext |-> fs[1], substring |-> fs[2], unmatched_rank |-> fs[3],
      expansion |-> [e \in ExpQueries |-> IF e = "e1" THEN x ELSE Take(x, 1)],
      rerank_score |-> RerankScores] :
        v \in {<<>>, <<Gen11>>, <<Gen11, John316>>, <<Rom828, John316, Gen11>>},
        fs \in FulltextChoices,
        x \in {<<>>, <<Rom828, Gen11>>}}

\* the expanded_queries arguments: no expansion, or the first n of e1, e2
ExpandedChoices == {SubSeq(<<"e1", "e2">>, 1, Min(n, 2)) : n \in 0..MaxExpanded}

AllFlags == BOOLEAN \X BOOLEAN

(***************************************************************************)
(* Spec: one client calling search_verses again and again through the      *)
(* cache, while entries expire and the index gets populated.  The store    *)
(* is the one of the fusion scenario: the vector index answers Gen 1:1,    *)
(* John 3:16 and full-text search answers John 3:16, Rom 8:28.             *)
(***************************************************************************)
AllFaults == {"embed", "vector", "fulltext", "rerank", "expansion"}

ScenarioStore ==
    [vector |-> <<Gen11, John316>>, fulltext |-> <<John316, Rom828>>, substring |-> {},
     unmatched_rank |-> 0, expansion |-> [e \in ExpQueries |-> <<>>], rerank_score |-> RerankScores]

CacheDomain ==
    [clients |-> {"c1"},
     queries |-> {<<"a">>},
     translations |-> {<<"NIV", "KRV">>, <<"KRV", "NIV">>, <<"XXX">>},
     max_results |-> 1..MaxResults,
     flags |-> AllFlags,
     use_cache |-> BOOLEAN,
     expanded_queries |-> {<<>>},
     faults |-> AllFaults \ {"expansion"},
     cache_faults |-> {},
     settings |-> SettingsChoices,
     stores |-> {ScenarioStore}]

Init == SearchInit(CacheDomain)

Next == RequestStep(CacheDomain) \/ ExpireCache \/ PopulateIndex

Spec == Init /\ [][Next]_vars

(***************************************************************************)
(* SpecSignals: one client calling search_verses without the cache, over   *)
(* every store and setting, with expanded queries and with every           *)
(* collaborator call of the hybrid pipeline able to fail.                  *)
(***************************************************************************)
SignalDomain ==
    [clients |-> {"c1"},
     queries |-> {<<"a">>},
     translations |-> {<<"NIV", "KRV">>, <<"KRV">>, <<"XXX">>},
     max_results |-> 1..MaxResults,
     flags |-> {<<FALSE, TRUE>>},
     use_cache |-> {FALSE},
     expanded_queries |-> ExpandedChoices,
     faults |-> AllFaults,
     cache_faults |-> {},
     settings |-> SettingsChoices,
     stores |-> StoreChoices]

SignalInit == SearchInit(SignalDomain)

SignalNext == RequestStep(SignalDomain) \/ PopulateIndex

SpecSignals == SignalInit /\ [][SignalNext]_vars

(***************************************************************************)
(* SpecCacheFaults: one client calling search_verses through a cache whose *)
(* reads and writes may fail, with every retrieval call answering.         *)
(***************************************************************************)
AllCacheFaults == {"connection", "timeout", "response"}

CacheFaultDomain ==
    [clients |-> {"c1"},
     queries |-> {<<"a">>},
     translations |-> {<<"NIV", "KRV">>, <<"XXX">>},
     max_results |-> {MaxResults},
     flags |-> {<<FALSE, TRUE>>},
     use_cache |-> BOOLEAN,
     expanded_queries |-> {<<>>},
     faults |-> {},
     cache_faults |-> AllCacheFaults,
     settings |-> SettingsChoices,
     stores |-> {ScenarioStore}]

CacheFaultInit == SearchInit(CacheFaultDomain)

CacheFaultNext == RequestStep(CacheFaultDomain) \/ ExpireCache \/ PopulateIndex

SpecCacheFaults == CacheFaultInit /\ [][CacheFaultNext]_vars

(***************************************************************************)
(* SpecConcurrent: two clients whose search_verses calls share one cache   *)
(* fingerprint and interleave step by step (each await of search_verses    *)
(* is a point where the event loop may run the other call).                *)
(***************************************************************************)
ConcurrentDomain ==
    [clients |-> Clients,
     queries |-> {<<"a">>},
     translations |-> {<<"NIV", "KRV">>},
     max_results |-> 1..MaxResults,
     flags |-> {<<FALSE, FALSE>>, <<FALSE, TRUE>>},
     use_cache |-> BOOLEAN,
     expanded_queries |-> {<<>>},
     faults |-> {},
     cache_faults |-> {},
     settings |-> {st \in SettingsChoices : st.enable_hybrid_search /\ ~st.enable_reranking},
     stores |-> {ScenarioStore}]

ConcurrentInit == SearchInit(ConcurrentDomain)

ConcurrentNext == RequestStep(ConcurrentDomain) \/ ExpireCache \/ PopulateIndex

SpecConcurrent == ConcurrentInit /\ [][ConcurrentNext]_vars

(***************************************************************************)
(* SpecKey: generate_cache_key applied to two bounded argument lists.      *)
(***************************************************************************)
\* the longest query text tried
MaxQueryLen == 2

QueryTexts == SeqsUpTo({"a", "A", " "}, MaxQueryLen)

TranslationLists == {<<"NIV", "KRV">>, <<"KRV", "NIV">>, <<"NIV">>}

FilterChoices ==
    {NoFilters,
     [none |-> FALSE, items |-> <<>>],
     [none |-> FALSE, items |-> <<<<"testament", "NT">>, <<"genre", "gospel">>>>],
     [none |-> FALSE, items |-> <<<<"genre", "gospel">>, <<"testament", "NT">>>>],
     [none |-> FALSE, items |-> <<<<"testament", "OT">>>>]}

KeyArgs == [query : QueryTexts, translations : TranslationLists, filters : FilterChoices]

SearchIdle ==
    /\ cache = <<>>
    /\ embeddings_count = 0
    /\ settings = CHOOSE st \in SettingsChoices : TRUE
    /\ store = CHOOSE s \in StoreChoices : TRUE
    /\ req = [p \in Clients |-> IdleCall]
    /\ rrf_pc = "off"
    /\ rrf_k = RRF_K
    /\ ranked_lists = <<>>
    /\ rrf_out = <<>>
    /\ fuse_out = [merged |-> <<>>, search_method |-> "none"]

KeyInit ==
    /\ key_pc = "start"
    /\ key_args \in KeyArgs \X KeyArgs
    /\ key_out = <<>>
    /\ SearchIdle
    /\ ClientIdle
    /\ LlmIdle
    /\ BatcherIdle

GenerateCacheKeyCalls ==
    /\ key_pc = "start"
    /\ key_pc' = "done"
    /\ key_out' = [n \in 1..2 |->
                      generate_cache_key(key_args[n].query, key_args[n].translations,
                                         key_args[n].filters)]
    /\ UNCHANGED <<key_args, searchVars, rrfVars, clientVars, llmVars, batcherVars>>

KeyNext == GenerateCacheKeyCalls

SpecKey == KeyInit /\ [][KeyNext]_vars

(***************************************************************************)
(* SpecCache: CacheClient calls on one Redis server while time passes.     *)
(***************************************************************************)
\* the most hits counted on one stats key
MaxHits == 2

\* responses as search_verses builds them: an empty one, and one result
\* with its translations map
EmptyResponse ==
    PyDict(<<<<PyStr("query_time_ms"), PyInt(1)>>,
             <<PyStr("results"), PyList(<<>>)>>,
             <<PyStr("search_metadata"),
               PyDict(<<<<PyStr("total_results"), PyInt(0)>>,
                        <<PyStr("embedding_model"), PyNone>>,
                        <<PyStr("search_method"), PyStr("full-text")>>,
                        <<PyStr("cached"), PyBool(FALSE)>>>>)>>>>)

OneResultResponse ==
    PyDict(<<<<PyStr("query_time_ms"), PyInt(2)>>,
             <<PyStr("results"),
               PyList(<<PyDict(<<<<PyStr("translations"),
                                  PyDict(<<<<PyStr("NIV"), PyStr("In the beginning")>>>>)>>,
                                <<PyStr("relevance_score"), PyInt(1)>>,
                                <<PyStr("verse_id"), PyStr("v1")>>>>)>>)>>,
             <<PyStr("search_metadata"),
               PyDict(<<<<PyStr("total_results"), PyInt(1)>>,
                        <<PyStr("embedding_model"), PyStr("e5")>>,
                        <<PyStr("search_method"), PyStr("hybrid-rrf")>>,
                        <<PyStr("expanded_queries"), PyList(<<PyStr("e1")>>)>>,
                        <<PyStr("cached"), PyBool(FALSE)>>>>)>>>>)

CachedResponses == <<EmptyResponse, OneResultResponse>>

\* the ttl arguments tried: 0 stands for ttl=None
TtlArgs == {0, 1}

CacheInit ==
    /\ ClientIdle
    /\ LlmIdle
    /\ BatcherIdle
    /\ SearchIdle
    /\ key_pc = "off"
    /\ key_args = <<>>
    /\ key_out = <<>>

CacheResultsCall ==
    /\ \E f \in Fingerprints, i \in DOMAIN CachedResponses, ttl_arg \in TtlArgs,
          fail_at \in 0..3 :
          LET out == cache_results(redis, f, CachedResponses[i], "q", ttl_arg, fail_at)
          IN /\ redis' = out.db
             /\ cc_ret' = [op |-> "cache_results", key |-> f, ret |-> out.ret]
             /\ cc_last' =
                    [cc_last EXCEPT ![f] =
                        IF out.ret
                        THEN [kind |-> "written", response |-> i, age |-> 0,
                              ttl |-> IF ttl_arg = 0 THEN DefaultTtl ELSE ttl_arg]
                        ELSE IF fail_at = 1 THEN @ ELSE [kind |-> "unknown"]]
    /\ UNCHANGED <<searchVars, rrfVars, keyVars, llmVars, batcherVars>>

GetCachedResultsCall ==
    /\ \E f \in Fingerprints, fail_at \in 0..2 :
          /\ fail_at = 2 => RedisHas(redis, <<"search", f>>)
          /\ RedisHas(redis, <<"stats", f>>) => redis[<<"stats", f>>].value.hits < MaxHits
          /\ LET out == get_cached_results(redis, f, fail_at)
             IN /\ redis' = out.db
                /\ cc_ret' = [op |-> "get_cached_results", key |-> f, ret |-> out.ret,
                              failed |-> fail_at # 0, expect |-> cc_last[f]]
    /\ UNCHANGED <<cc_last, searchVars, rrfVars, keyVars, llmVars, batcherVars>>

ClearSearchCacheCall ==
    /\ \E fail_at \in 0..1 :
          LET out == clear_search_cache(redis, fail_at)
          IN /\ redis' = out.db
             /\ cc_ret' = [op |-> "clear_search_cache", ret |-> out.ret]
             /\ cc_last' = IF fail_at = 0
                            THEN [f \in Fingerprints |-> [kind |-> "cleared"]]
                            ELSE cc_last
    /\ UNCHANGED <<searchVars, rrfVars, keyVars, llmVars, batcherVars>>

\* one unit of time passes
Tick ==
    /\ redis' = RedisTick(redis)
    /\ cc_last' = [f \in Fingerprints |->
                      IF cc_last[f].kind = "written"
                      THEN [cc_last[f] EXCEPT !.age = Min(@ + 1, cc_last[f].ttl)]
                      ELSE cc_last[f]]
    /\ UNCHANGED <<cc_ret, searchVars, rrfVars, keyVars, llmVars, batcherVars>>

CacheNext == CacheResultsCall \/ GetCachedResultsCall \/ ClearSearchCacheCall \/ Tick

SpecCache == CacheInit /\ [][CacheNext]_vars

(***************************************************************************)
(* SpecRateLimit: _check_rate_limit called for either provider while time  *)
(* passes.                                                                 *)
(***************************************************************************)
\* the latest time reached
MaxNow == 185

\* the amounts of time that pass between two calls
TimeSteps == {20, 30}

RateLimitInit ==
    /\ LlmIdle
    /\ BatcherIdle
    /\ SearchIdle
    /\ redis = <<>>
    /\ cc_ret = [op |-> "none"]
    /\ cc_last = [f \in Fingerprints |-> NoWrite]
    /\ key_pc = "off"
    /\ key_args = <<>>
    /\ key_out = <<>>

\* time passes, by one of the amounts `steps`
TimePasses(steps) ==
    /\ \E d \in steps :
          /\ now + d <= MaxNow
          /\ now' = now + d
          /\ admitted' = [provider \in Providers |->
                             RecentAdmissions(admitted[provider], now + d)]
    /\ UNCHANGED <<rate_limit_state, stream, searchVars, rrfVars, keyVars, clientVars, batcherVars>>

\* what one _check_rate_limit(provider, Rpm[provider]) call at `now` does to
\* the limiter
RateLimitStep(provider) ==
    LET out == check_rate_limit(rate_limit_state[provider], now, Rpm[provider])
    IN /\ rate_limit_state' = [rate_limit_state EXCEPT ![provider] = out.state]
       /\ admitted' = [admitted EXCEPT ![provider] =
                           IF out.ret THEN Append(@, now) ELSE @]

CheckRateLimitCall ==
    /\ \E provider \in Providers : RateLimitStep(provider)
    /\ UNCHANGED <<now, stream, searchVars, rrfVars, keyVars, clientVars, batcherVars>>

RateLimitNext == CheckRateLimitCall \/ TimePasses(TimeSteps)

SpecRateLimit == RateLimitInit /\ [][RateLimitNext]_vars

(***************************************************************************)
(* SpecStream: generate_contextual_response_stream called again and again  *)
(* while minutes pass.  A provider may lack a key, be rate limited, fail   *)
(* while it is set up or while it streams, or stream to the end.           *)
(***************************************************************************)
\* the most tokens one provider streams in one call
MaxTokens == 2

\* lines 201-211
StreamStart ==
    /\ stream.pc \in {"idle", "done"}
    /\ \E verses \in BOOLEAN, groq_key \in BOOLEAN, gemini_key \in BOOLEAN :
          stream' = IF verses
                    THEN [NoStream EXCEPT !.pc = "groq", !.verses = TRUE,
                                          !.groq_key = groq_key,
                                          !.gemini_key = gemini_key]
                    ELSE [NoStream EXCEPT !.pc = "done", !.groq_key = groq_key,
                                          !.gemini_key = gemini_key,
                                          !.out = <<"None">>]
    /\ UNCHANGED <<now, rate_limit_state, admitted, searchVars, rrfVars, keyVars, clientVars, batcherVars>>

\* generate_response_stream_groq up to its first chunk (lines 165-190)
GroqBegin ==
    /\ stream.pc = "groq"
    /\ IF ~stream.groq_key
       THEN /\ stream' = AfterGroq(stream, "no key")
            /\ UNCHANGED <<rate_limit_state, admitted>>
       ELSE /\ RateLimitStep("groq")
            /\ IF ~check_rate_limit(rate_limit_state["groq"], now, Rpm["groq"]).ret
               THEN stream' = AfterGroq(stream, "rate limited")
               ELSE \E created \in BOOLEAN :
                       stream' = IF created
                                 THEN [stream EXCEPT !.pc = "groq_stream"]
                                 ELSE AfterGroq(stream, "failed")
    /\ UNCHANGED <<now, searchVars, rrfVars, keyVars, clientVars, batcherVars>>

\* one chunk of the Groq stream, its failure or its end (lines 192-198
\* and 219-226)
GroqChunk ==
    /\ stream.pc = "groq_stream"
    /\ \/ /\ TokensOf(stream, "groq") < MaxTokens
          /\ stream' = [stream EXCEPT !.out = Append(@, "groq"), !.first_chunk = FALSE]
       \/ stream' = AfterGroq(stream, "failed")
       \/ stream' = AfterGroq(stream, "ended")
    /\ UNCHANGED <<now, rate_limit_state, admitted, searchVars, rrfVars, keyVars, clientVars, batcherVars>>

\* generate_response_stream_gemini up to its first chunk (lines 118-148)
GeminiBegin ==
    /\ stream.pc = "gemini"
    /\ IF ~stream.gemini_key
       THEN /\ stream' = AfterGemini(stream, "no key")
            /\ UNCHANGED <<rate_limit_state, admitted>>
       ELSE /\ RateLimitStep("gemini")
            /\ IF ~check_rate_limit(rate_limit_state["gemini"], now, Rpm["gemini"]).ret
               THEN stream' = AfterGemini(stream, "rate limited")
               ELSE \E created \in BOOLEAN :
                       stream' = IF created
                                 THEN [stream EXCEPT !.pc = "gemini_stream"]
                                 ELSE AfterGemini(stream, "failed")
    /\ UNCHANGED <<now, searchVars, rrfVars, keyVars, clientVars, batcherVars>>

\* one chunk of the Gemini stream, its failure or its end (lines 150-156
\* and 233-240)
GeminiChunk ==
    /\ stream.pc = "gemini_stream"
    /\ \/ /\ TokensOf(stream, "gemini") < MaxTokens
          /\ stream' = [stream EXCEPT !.out = Append(@, "gemini")]
       \/ stream' = AfterGemini(stream, "failed")
       \/ stream' = AfterGemini(stream, "ended")
    /\ UNCHANGED <<now, rate_limit_state, admitted, searchVars, rrfVars, keyVars, clientVars, batcherVars>>

StreamNext ==
    \/ StreamStart
    \/ GroqBegin
    \/ GroqChunk
    \/ GeminiBegin
    \/ GeminiChunk
    \/ TimePasses({RateWindow})

SpecStream == RateLimitInit /\ [][StreamNext]_vars

(***************************************************************************)
(* SpecBatcher: batched_generate_response calls, the background processor  *)
(* and stop(), interleaved at the awaits.                                  *)
(***************************************************************************)
OthersUnchanged == UNCHANGED <<searchVars, rrfVars, keyVars, clientVars, llmVars>>

\* batched_generate_response: start() creates the background task if there
\* is none or it is done; submit_request appends the request and waits
SubmitRequest ==
    /\ Submitted < MaxRequests
    /\ LET r == Submitted + 1
       IN /\ batch_requests' = [batch_requests EXCEPT ![r].pc = "waiting"]
          /\ batcher' = [batcher EXCEPT
                             !.queue = Append(@, r),
                             !.task = IF @ \in {"none", "stopped"} THEN "sleep" ELSE @]
    /\ OthersUnchanged

\* _process_batches after its sleep, with requests queued: take a batch;
\* _process_batch sets the model up and creates one task per request, or
\* fails and marks every request of the batch
ProcessBatch ==
    /\ batcher.task = "sleep"
    /\ batcher.queue # <<>>
    /\ \E setup_ok \in BOOLEAN :
          LET taken == TakeBatch(batcher.queue, MaxBatchSize)
              batch == {taken.batch[i] : i \in DOMAIN taken.batch}
          IN IF setup_ok
             THEN /\ batcher' = [batcher EXCEPT
                                    !.queue = taken.queue,
                                    !.batches = Append(@, taken.batch),
                                    !.task = "gather",
                                    !.inflight = [r \in batch |-> "created"]]
                  /\ UNCHANGED batch_requests
             ELSE /\ batcher' = [batcher EXCEPT
                                    !.queue = taken.queue,
                                    !.batches = Append(@, taken.batch)]
                  /\ batch_requests' =
                         [r \in Requests |->
                             IF r \in batch
                             THEN [batch_requests[r] EXCEPT !.error = TRUE,
                                                            !.completed = TRUE]
                             ELSE batch_requests[r]]
    /\ OthersUnchanged

\* the task of one request starts and awaits asyncio.to_thread(...)
SingleStart ==
    /\ batcher.task = "gather"
    /\ \E r \in DOMAIN batcher.inflight :
          /\ batcher.inflight[r] = "created"
          /\ batcher' = [batcher EXCEPT !.inflight[r] = "running"]
    /\ UNCHANGED batch_requests
    /\ OthersUnchanged

\* the model call of one request answers or raises; a response may also
\* raise after request.result was set.  finally: request.completed.set()
SingleFinish ==
    /\ batcher.task = "gather"
    /\ \E r \in DOMAIN batcher.inflight, result \in BOOLEAN, error \in BOOLEAN :
          /\ batcher.inflight[r] = "running"
          /\ result \/ error
          /\ batcher' = [batcher EXCEPT !.inflight[r] = "done"]
          /\ batch_requests' = [batch_requests EXCEPT
                                    ![r].result = result, ![r].error = error,
                                    ![r].completed = TRUE]
    /\ OthersUnchanged

\* asyncio.gather returns: back to the sleep of _process_batches
GatherDone ==
    /\ batcher.task = "gather"
    /\ \A r \in DOMAIN batcher.inflight : batcher.inflight[r] = "done"
    /\ batcher' = [batcher EXCEPT !.task = "sleep", !.inflight = <<>>]
    /\ UNCHANGED batch_requests
    /\ OthersUnchanged

\* stop(): the background task is cancelled.  In its sleep it ends.  In
\* gather the tasks of the batch are cancelled with it: one that awaits
\* its model call gets CancelledError, which `except Exception` does not
\* catch, and sets completed in its finally; one that has not run yet
\* never enters its try block
Stop ==
    /\ batcher.task \in {"sleep", "gather"}
    /\ batcher' = [batcher EXCEPT !.task = "stopped", !.inflight = <<>>]
    /\ batch_requests' =
           [r \in Requests |->
               IF r \in DOMAIN batcher.inflight /\ batcher.inflight[r] = "running"
               THEN [batch_requests[r] EXCEPT !.completed = TRUE]
               ELSE batch_requests[r]]
    /\ OthersUnchanged

\* submit_request after request.completed.wait(): the result, or the
\* direct generation when the request has an error
SubmitReturns ==
    /\ \E r \in Requests :
          /\ batch_requests[r].pc = "waiting"
          /\ batch_requests[r].completed
          /\ batch_requests' = [batch_requests EXCEPT ![r].pc = "returned"]
    /\ UNCHANGED batcher
    /\ OthersUnchanged

BatcherNext ==
    \/ SubmitRequest
    \/ ProcessBatch
    \/ SingleStart
    \/ SingleFinish
    \/ GatherDone
    \/ Stop
    \/ SubmitReturns

SpecBatcher == RateLimitInit /\ [][BatcherNext]_vars

\* the event loop runs every task that is ready: the processor's steps
\* and the return of a submit_request whose event is set
SpecBatcherFair ==
    /\ SpecBatcher
    /\ WF_vars(ProcessBatch)
    /\ WF_vars(SingleStart)
    /\ WF_vars(SingleFinish)
    /\ WF_vars(GatherDone)
    /\ WF_vars(SubmitReturns)

(***************************************************************************)
(* SpecRRF: rrf_merge and the fusion step on every bounded input.          *)
(***************************************************************************)
\* values of k tried: the default of rrf_merge and a small one
RrfKs == {1, RRF_K}

RefLists == {rs \in SeqsUpTo(Refs, Cardinality(Refs)) : NoDup(rs)}

RankedListInputs(scale) ==
    {[n \in DOMAIN ls |-> ScoredList(ls[n], scale)] : ls \in SeqsUpTo(RefLists, MaxLists)}

RrfInit ==
    /\ rrf_pc = "start"
    /\ rrf_k \in RrfKs
    /\ \E scale \in {1, 2} : ranked_lists \in RankedListInputs(scale)
    /\ rrf_out = <<>>
    /\ fuse_out = [merged |-> <<>>, search_method |-> "none"]
    /\ cache = <<>>
    /\ embeddings_count = 0
    /\ settings = CHOOSE st \in SettingsChoices : TRUE
    /\ store = CHOOSE s \in StoreChoices : TRUE
    /\ req = [p \in Clients |-> IdleCall]
    /\ key_pc = "off"
    /\ key_args = <<>>
    /\ key_out = <<>>
    /\ ClientIdle
    /\ LlmIdle
    /\ BatcherIdle

RrfMergeCall ==
    /\ rrf_pc = "start"
    /\ rrf_pc' = "done"
    /\ rrf_out' = rrf_merge(ranked_lists, rrf_k)
    /\ fuse_out' = FuseStep(ranked_lists, rrf_k)
    /\ UNCHANGED <<rrf_k, ranked_lists, searchVars, keyVars, clientVars, llmVars, batcherVars>>

RrfNext == RrfMergeCall

SpecRRF == RrfInit /\ [][RrfNext]_vars

(***************************************************************************)
(* Properties of rrf_merge, checked under SpecRRF.                         *)
(***************************************************************************)
RrfDone == rrf_pc = "done"

\* the references that appear in some input list
InputRefs == UNION {Range(RefsOf(ranked_lists[n])) : n \in DOMAIN ranked_lists}

\* zero-based position of ref in a list that contains it
RankIn(list, ref) == (CHOOSE i \in DOMAIN list : list[i][1] = ref) - 1

\* the sum over exactly the lists n..Len that contain ref of 1/(rank + k)
RECURSIVE ExpectedScoreFrom(_, _)
ExpectedScoreFrom(ref, n) ==
    IF n > Len(ranked_lists) THEN 0
    ELSE (IF ref \in Range(RefsOf(ranked_lists[n]))
          THEN RrfDen(rrf_k) \div (RankIn(ranked_lists[n], ref) + rrf_k)
          ELSE 0) + ExpectedScoreFrom(ref, n + 1)

\* where ref is first seen: <<list index, position>> as one number
FirstSeen(ref) ==
    LET n == CHOOSE m \in DOMAIN ranked_lists :
                 /\ ref \in Range(RefsOf(ranked_lists[m]))
                 /\ \A j \in 1..(m - 1) : ref \notin Range(RefsOf(ranked_lists[j]))
    IN n * (Cardinality(Refs) + 1) + RankIn(ranked_lists[n], ref)

\* C2: for a non-empty list of duplicate-free ranked lists, the output of
\* rrf_merge is sorted by non-increasing score, holds every input reference
\* exactly once and holds no reference that is in no input.
C2_SortedEachRefOnce ==
    (RrfDone /\ Len(ranked_lists) >= 1) =>
        /\ \A i, j \in DOMAIN rrf_out : i < j => rrf_out[i][2] >= rrf_out[j][2]
        /\ NoDup(RefsOf(rrf_out))
        /\ Range(RefsOf(rrf_out)) = InputRefs

\* three lists over three references, one reference in more than one list
C2_Witness ==
    /\ RrfDone
    /\ Len(ranked_lists) = 3
    /\ Len(rrf_out) = 3
    /\ rrf_out[1][2] > rrf_out[3][2]
    /\ \E n, m \in DOMAIN ranked_lists :
           n # m /\ Range(RefsOf(ranked_lists[n])) \cap Range(RefsOf(ranked_lists[m])) # {}

\* C3: the score of a reference is the sum, over exactly the lists that
\* contain it, of 1/(r + k) with r its zero-based position; the input scores
\* play no part, and a reference in two lists yields one entry with the sum.
C3_ScoreIsSumOfReciprocalRanks ==
    RrfDone =>
        /\ \A i \in DOMAIN rrf_out :
               rrf_out[i][2] = ExpectedScoreFrom(rrf_out[i][1], 1)
        /\ \A ref \in InputRefs :
               Cardinality({i \in DOMAIN rrf_out : rrf_out[i][1] = ref}) = 1

\* John 3:16 at rank 1 of one list and rank 0 of another, absent from a third
C3_Witness ==
    /\ RrfDone
    /\ Len(ranked_lists) = 3
    /\ rrf_k = RRF_K
    /\ RefsOf(ranked_lists[1]) = <<Gen11, John316>>
    /\ RefsOf(ranked_lists[2]) = <<John316, Rom828>>
    /\ RefsOf(ranked_lists[3]) = <<Rom828>>
    /\ ranked_lists[1][2][2] # 0
    /\ \E i \in DOMAIN rrf_out :
           /\ rrf_out[i][1] = John316
           /\ rrf_out[i][2] = RrfDen(RRF_K) \div 61 + RrfDen(RRF_K) \div 60

\* C4: references of equal accumulated score are ordered by first appearance
\* across the inputs (earlier list first, then earlier position in a list).
C4_TiesByFirstAppearance ==
    RrfDone =>
        \A i, j \in DOMAIN rrf_out :
            (i < j /\ rrf_out[i][2] = rrf_out[j][2]) =>
                FirstSeen(rrf_out[i][1]) < FirstSeen(rrf_out[j][1])

\* a tie between a reference first seen in list 1 and one first seen in list 2
C4_Witness ==
    /\ RrfDone
    /\ Len(ranked_lists) = 2
    /\ RefsOf(ranked_lists[1]) = <<Rom828, Gen11>>
    /\ RefsOf(ranked_lists[2]) = <<John316, Gen11>>
    /\ RefsOf(rrf_out) = <<Gen11, Rom828, John316>>
    /\ rrf_out[2][2] = rrf_out[3][2]

\* the lists of the scenario: vector {Gen 1:1, John 3:16}, full-text
\* {John 3:16, Rom 8:28}, each in either order
C5_Scenario ==
    /\ rrf_k = RRF_K
    /\ Len(ranked_lists) = 2
    /\ Len(ranked_lists[1]) = 2
    /\ Len(ranked_lists[2]) = 2
    /\ Range(RefsOf(ranked_lists[1])) = {Gen11, John316}
    /\ Range(RefsOf(ranked_lists[2])) = {John316, Rom828}

\* C5: with k = 60, fusing [Gen 1:1, John 3:16] with [John 3:16, Rom 8:28]
\* (either order each) ranks John 3:16 strictly first.
C5_JohnRanksFirst ==
    (RrfDone /\ C5_Scenario) =>
        /\ Len(rrf_out) = 3
        /\ rrf_out[1][1] = John316
        /\ rrf_out[1][2] > rrf_out[2][2]

\* the hardest order: John 3:16 is last in both lists
C5_Witness ==
    /\ RrfDone
    /\ C5_Scenario
    /\ RefsOf(ranked_lists[1]) = <<Gen11, John316>>
    /\ RefsOf(ranked_lists[2]) = <<Rom828, John316>>
    /\ RefsOf(rrf_out) = <<John316, Gen11, Rom828>>

\* C6: with exactly one ranked list L, rrf_merge([L]) and the single-list
\* pass-through of search_verses both yield the references of L in L's order.
C6_SingleListKeepsOrder ==
    (RrfDone /\ Len(ranked_lists) = 1) =>
        /\ RefsOf(rrf_out) = RefsOf(ranked_lists[1])
        /\ RefsOf(fuse_out.merged) = RefsOf(ranked_lists[1])

\* one list of three references
C6_Witness ==
    /\ RrfDone
    /\ Len(ranked_lists) = 1
    /\ RefsOf(ranked_lists[1]) = <<Rom828, Gen11, John316>>
    /\ RefsOf(rrf_out) = <<Rom828, Gen11, John316>>
    /\ fuse_out.search_method = "semantic"

(***************************************************************************)
(* Properties of search_verses.                                            *)
(***************************************************************************)
Done(p) == req[p].pc = "done"

Returned(p) == Done(p) /\ req[p].outcome = "returned"

Called(p, what) == what \in Range(req[p].trace)

\* C1: a call with max_results = M returns at most M results, whether the
\* response is computed or served from the cache.  (Checked under Spec.)
C1_AtMostMaxResults ==
    \A p \in Clients :
        Returned(p) => Len(req[p].response.results) <= req[p].max_results

\* C7: a call that misses the cache and resolves a translation takes the
\* path the embeddings count it read decides: zero goes to full-text-only
\* search, returns search_method "full-text", calls neither the embedder nor
\* vector search and raises nothing; a positive count goes to the hybrid
\* path.  (Checked under Spec.)
C7_PathChosenByCount ==
    \A p \in Clients :
        /\ req[p].pc = "fulltext" => req[p].count_read = 0
        /\ req[p].pc = "hybrid" => req[p].count_read > 0
        /\ (Done(p) /\ Called(p, "count")) =>
               IF req[p].count_read = 0
               THEN /\ req[p].outcome = "returned"
                    /\ req[p].response.search_metadata.search_method = "full-text"
                    /\ Called(p, "fulltext")
                    /\ ~Called(p, "embed")
                    /\ ~Called(p, "vector")
               ELSE Called(p, "embed")

\* a cache miss on an empty index, answered by full-text search, with
\* settings that enable hybrid search
C7_Witness ==
    /\ Done("c1")
    /\ req["c1"].use_cache
    /\ Called("c1", "count")
    /\ req["c1"].count_read = 0
    /\ settings.enable_hybrid_search
    /\ req["c1"].response.search_metadata.search_method = "full-text"
    /\ Len(req["c1"].response.results) = 2

\* no requested abbreviation names a translation of the store
NoValidTranslation(p) == Range(req[p].translations) \cap TranslationsInDb = {}

\* C8: when no requested translation exists the call returns, without
\* raising and without embedding, retrieval or cache write, a response with
\* no results, total_results 0 and an "error" entry in search_metadata.
\* (Checked under Spec.)
C8_NoValidTranslations ==
    \A p \in Clients :
        (Done(p) /\ NoValidTranslation(p)) =>
            /\ req[p].outcome = "returned"
            /\ req[p].response.results = <<>>
            /\ "error" \in DOMAIN req[p].response.search_metadata
            /\ req[p].response.search_metadata.total_results = 0
            /\ req[p].trace
                   = (IF req[p].use_cache THEN <<"cache_get">> ELSE <<>>)
                         \o <<"translations">>
            /\ req[p].cache_key \notin DOMAIN cache

\* the call for ["XXX"] has ended, with use_cache set and a populated index
C8_Witness ==
    /\ Done("c1")
    /\ req["c1"].translations = <<"XXX">>
    /\ req["c1"].use_cache
    /\ embeddings_count > 0
    /\ cache # <<>>
    /\ "error" \in DOMAIN req["c1"].response.search_metadata

\* the hybrid pipeline of the call ran
HybridRan(p) == Done(p) /\ Called(p, "embed")

VectorFailed(p) == req[p].fault.embed \/ req[p].fault.vector

FulltextFailed(p) == settings.enable_hybrid_search /\ req[p].fault.fulltext

\* every signal of the call failed or returned no candidates
EverySignalFailedOrEmpty(p) ==
    /\ VectorFailed(p) \/ VectorList(req[p]) = <<>>
    /\ FulltextFailed(p) \/ FulltextList(req[p]) = <<>>
    /\ \A i \in 1..Len(req[p].expanded_queries) :
           ExpansionList(req[p], req[p].fault, i) = <<>>

\* C9: when every retrieval signal fails or returns no candidates, fusion
\* gets zero lists and the call returns a response with results = [] and
\* total_results = 0 without raising.  (Checked under SpecSignals.)
C9_AllSignalsFailOrEmpty ==
    \A p \in Clients :
        (HybridRan(p) /\ EverySignalFailedOrEmpty(p)) =>
            /\ req[p].outcome = "returned"
            /\ req[p].lists = <<>>
            /\ req[p].response.results = <<>>
            /\ req[p].response.search_metadata.total_results = 0

\* some signal other than the failed ones did not fail
AnotherSignalSucceeded(p) ==
    \/ ~VectorFailed(p)
    \/ settings.enable_hybrid_search /\ ~req[p].fault.fulltext
    \/ \E i \in 1..Len(req[p].expanded_queries) : i \notin req[p].fault.expansions

\* ranked_lists without the lists of the original-query signals that failed
RemainingLists(p) ==
    SelectSeq(<<IF VectorFailed(p) THEN <<>> ELSE VectorList(req[p]),
                IF FulltextFailed(p) THEN <<>> ELSE FulltextList(req[p])>>
                  \o [i \in 1..Len(req[p].expanded_queries) |->
                         ExpansionList(req[p], req[p].fault, i)],
              LAMBDA l : l # <<>>)

\* C10: if vector search on the original query (its embedding or its store
\* query) or full-text search fails while another signal succeeds, the call
\* drops the failed signal and returns a response built from the remaining
\* signals; nothing is raised.  (Checked under SpecSignals.)
C10_FailedSignalDropped ==
    \A p \in Clients :
        (HybridRan(p) /\ (VectorFailed(p) \/ FulltextFailed(p))
                      /\ AnotherSignalSucceeded(p)) =>
            /\ req[p].outcome = "returned"
            /\ req[p].lists = RemainingLists(p)

\* the rows each signal of the call finds when nothing fails: the original
\* query's vector and full-text lists, then one list per expanded query
AllSignalLists(p) ==
    <<VectorList(req[p]), FulltextList(req[p])>>
        \o [i \in 1..Len(req[p].expanded_queries) |->
               vector_search(store.expansion[req[p].expanded_queries[i]],
                             req[p].translation_ids, InternalLimit(req[p]))]

\* AllSignalLists without the lists of the expansions that failed
ListsWithoutFailedExpansions(p) ==
    LET all == AllSignalLists(p)
    IN SelectSeq([n \in DOMAIN all |->
                     IF n > 2 /\ (n - 2) \in req[p].fault.expansions THEN <<>> ELSE all[n]],
                 LAMBDA l : l # <<>>)

\* C11: if the embedding or the vector search of one expanded query fails,
\* only that expansion is skipped: the call returns, and what it fuses is
\* the no-failure lists less the lists of the failed expansions.
\* (Checked under SpecSignals.)
C11_ExpansionFailureSkipped ==
    \A p \in Clients :
        (HybridRan(p) /\ req[p].fault.expansions # {}
                      /\ ~VectorFailed(p) /\ ~FulltextFailed(p)) =>
            /\ req[p].outcome = "returned"
            /\ req[p].lists = ListsWithoutFailedExpansions(p)
            /\ req[p].merged
                   = FuseStep(ListsWithoutFailedExpansions(p), settings.rrf_k).merged
            /\ req[p].response.search_metadata.total_results
                   = Len(req[p].response.results)

\* the first of two expansions failed, both would have found rows, and the
\* second one's list was fused with the original query's
C11_Witness ==
    /\ Returned("c1")
    /\ Len(req["c1"].expanded_queries) = 2
    /\ req["c1"].fault.expansions = {1}
    /\ AllSignalLists("c1")[3] # <<>>
    /\ AllSignalLists("c1")[4] # <<>>
    /\ AllSignalLists("c1")[4] \in Range(req["c1"].lists)
    /\ Len(req["c1"].lists) >= 2

\* the references of the results of the call, in order
ResultRefs(p) == [i \in DOMAIN req[p].response.results |-> req[p].response.results[i].ref]

\* the reranker was called in the call and raised
RerankFailed(p) == Done(p) /\ Called(p, "rerank") /\ req[p].fault.rerank

\* C12: when reranking is enabled and the reranker raises, the call returns
\* the fused ranking cut to max_results, scores included, and raises
\* nothing.  (Checked under SpecSignals.)
C12_RerankFailureFallsBack ==
    \A p \in Clients :
        RerankFailed(p) =>
            /\ req[p].outcome = "returned"
            /\ ResultRefs(p) = Take(RefsOf(req[p].merged), req[p].max_results)
            /\ \A i \in DOMAIN req[p].response.results :
                   req[p].response.results[i].relevance_score = req[p].merged[i][2]

\* the reranker failed on three candidates led by John 3:16, which it would
\* have moved off the first place, and one result was asked for
C12_Witness ==
    /\ RerankFailed("c1")
    /\ settings.rerank_top_n = 3
    /\ req["c1"].max_results = 1
    /\ Len(req["c1"].merged) = 3
    /\ req["c1"].merged[1][1] = John316
    /\ ResultRefs("c1") = <<John316>>

\* the search_method of the call's response
SearchMethod(p) == req[p].response.search_metadata.search_method

RerankCandidates(p) == Take(RefsOf(req[p].merged), settings.rerank_top_n)

\* rerank was applied in the call
RerankApplied(p) == Called(p, "rerank") /\ ~req[p].fault.rerank

\* refs is Range-wise the max_results best candidates by reranker score, best
\* first
IsRerankOrder(p, refs) ==
    LET cands == Range(RerankCandidates(p))
        score == store.rerank_score
    IN /\ Range(refs) \subseteq cands
       /\ Len(refs) = Min(Cardinality(cands), req[p].max_results)
       /\ \A i, j \in DOMAIN refs : i < j => score[refs[i]] > score[refs[j]]
       /\ \A c \in cands \ Range(refs), x \in Range(refs) : score[c] < score[x]

\* C17: the results of a call list the passages in the order the ranking
\* step decided (the reranker's when it was applied, otherwise the fusion's
\* cut to max_results), enrichment included, and no reference twice.
\* (Checked under SpecSignals.)
C17_ResultsKeepRankingOrder ==
    \A p \in Clients :
        Returned(p) =>
            /\ NoDup(ResultRefs(p))
            /\ HybridRan(p) =>
                   IF RerankApplied(p)
                   THEN IsRerankOrder(p, ResultRefs(p))
                   ELSE ResultRefs(p) = Take(RefsOf(req[p].merged), req[p].max_results)

\* John 3:16, found by both signals and present in both translations, leads
\* a fused ranking that is not in book order, with cross references asked
C17_Witness ==
    /\ Returned("c1")
    /\ HybridRan("c1")
    /\ ~RerankApplied("c1")
    /\ req["c1"].include_cross_refs
    /\ Len(req["c1"].lists) = 2
    /\ \A n \in 1..2 : John316 \in Range(RefsOf(req["c1"].lists[n]))
    /\ req["c1"].translation_ids = {"NIV", "KRV"}
    /\ ResultRefs("c1") = <<John316, Gen11>>

\* the reranker put Rom 8:28 ahead of John 3:16, which led the fusion
C17_RerankWitness ==
    /\ Returned("c1")
    /\ RerankApplied("c1")
    /\ req["c1"].merged[1][1] = John316
    /\ ResultRefs("c1") = <<Rom828, John316>>

\* the requested translations that hold the passage
TranslationsHolding(p, ref) ==
    {t \in req[p].translation_ids : <<ref, t>> \in VerseRows}

\* C18: every result of a search, hybrid or full-text-only, carries the text
\* of the passage in every requested translation that holds it, not only in
\* the translation whose row won retrieval.  (Checked under SpecSignals.)
C18_AllRequestedTranslations ==
    \A p \in Clients :
        Returned(p) =>
            \A i \in DOMAIN req[p].response.results :
                req[p].response.results[i].translations
                    = TranslationsHolding(p, req[p].response.results[i].ref)

\* how many times the call has called the collaborator so far
TimesCalled(p, what) == Cardinality({i \in DOMAIN req[p].trace : req[p].trace[i] = what})

\* the response of the call came out of the cache
ServedFromCache(p) == Returned(p) /\ req[p].response.cached_key

\* C20: a call with use_cache reads the cache exactly once, before
\* translation resolution and any retrieval, and writes it at most once, as
\* its last step; a cache hit returns without embedding, retrieval, rerank
\* or cache write; a call without use_cache does not touch the cache.
\* (Checked under Spec.)
C20_CacheReadOnceWrittenOnce ==
    \A p \in Clients :
        LET trace == req[p].trace
        IN /\ (req[p].use_cache /\ req[p].pc # "idle") =>
                  /\ trace # <<>>
                  /\ trace[1] = "cache_get"
                  /\ TimesCalled(p, "cache_get") = 1
                  /\ TimesCalled(p, "cache_set") <= 1
                  /\ Called(p, "cache_set") =>
                         /\ Returned(p)
                         /\ trace[Len(trace)] = "cache_set"
                  /\ ServedFromCache(p) => trace = <<"cache_get">>
           /\ ~req[p].use_cache =>
                  /\ ~Called(p, "cache_get")
                  /\ ~Called(p, "cache_set")
                  /\ ~ServedFromCache(p)

\* a hit on a response the hybrid pipeline cached
C20_Witness ==
    /\ ServedFromCache("c1")
    /\ req["c1"].use_cache
    /\ embeddings_count > 0
    /\ SearchMethod("c1") = "hybrid-rrf"
    /\ req["c1"].trace = <<"cache_get">>

\* the verses of the requested translations that the tsquery matches
LexicalMatches(p) == {ref \in Range(store.fulltext) : HasRow(ref, req[p].translation_ids)}

\* the verses of the requested translations whose text contains the search
\* string
SubstringMatches(p) == {ref \in store.substring : HasRow(ref, req[p].translation_ids)}

\* C19: when no passage matches the lexical rank but some passage's text
\* contains the search string, full-text search returns the substring
\* matches instead of an empty list: the full-text-only path returns them
\* as results, and in the hybrid path they form the full-text signal's list.
\* (Checked under SpecSignals.)
C19_SubstringFallback ==
    \A p \in Clients :
        (Returned(p) /\ Called(p, "fulltext")
                     /\ LexicalMatches(p) = {} /\ SubstringMatches(p) # {}) =>
            IF HybridRan(p)
            THEN /\ FulltextList(req[p]) # <<>>
                 /\ Range(RefsOf(FulltextList(req[p]))) \subseteq SubstringMatches(p)
                 /\ FulltextList(req[p]) \in Range(req[p].lists)
            ELSE /\ ResultRefs(p) # <<>>
                 /\ Range(ResultRefs(p)) \subseteq SubstringMatches(p)

\* the cache read of the call failed
CacheReadFailed(p) == req[p].cache_fault.read # "none"

\* the cache write of the call failed
CacheWriteFailed(p) == req[p].cache_fault.write # "none"

\* C14: no failure of the cache is surfaced by search_verses: after a
\* failing cache read the call goes on as after a miss, and after a failing
\* cache write it still returns the assembled response.
\* (Checked under SpecCacheFaults.)
C14_CacheFailuresNotSurfaced ==
    \A p \in Clients :
        /\ (req[p].pc # "idle" /\ CacheReadFailed(p)) =>
               /\ req[p].outcome # "raised"
               /\ ~ServedFromCache(p)
               /\ Done(p) => Called(p, "translations")
        /\ (Done(p) /\ CacheWriteFailed(p)) =>
               /\ req[p].outcome = "returned"
               /\ req[p].response.search_metadata.total_results
                      = Len(req[p].response.results)
               /\ SearchMethod(p) \in {"full-text", "hybrid-rrf", "hybrid-rrf+rerank",
                                        "semantic", "semantic+rerank"}

\* the text between the first and the last character that is not a space
Trimmed(q) ==
    LET inked == {i \in DOMAIN q : q[i] # " "}
    IN IF inked = {} THEN <<>>
       ELSE SubSeq(q, CHOOSE i \in inked : \A j \in inked : i <= j,
                      CHOOSE i \in inked : \A j \in inked : j <= i)

\* the two texts are the same up to surrounding spaces and letter case
SameQueryText(qa, qb) ==
    LET a == Trimmed(qa)
        b == Trimmed(qb)
    IN /\ Len(a) = Len(b)
       /\ \A i \in DOMAIN a : a[i] = b[i] \/ {a[i], b[i]} = {"a", "A"}

\* the two lists hold the same abbreviations, in any order
SameTranslations(ta, tb) ==
    \A t \in Range(ta) \cup Range(tb) :
        Cardinality({i \in DOMAIN ta : ta[i] = t}) = Cardinality({i \in DOMAIN tb : tb[i] = t})

\* the two filters are the same dict (None counts as the empty dict)
SameFilters(fa, fb) == Range(FiltersAsGiven(fa)) = Range(FiltersAsGiven(fb))

\* C16: generate_cache_key gives equal keys to argument lists that are the
\* same up to the order of the translations, the order of the filter keys
\* and the case and surrounding whitespace of the query (the same
\* arguments included), and different keys to queries whose normalized
\* texts differ.  (Checked under SpecKey.)
C16_CacheKeyNormalized ==
    key_pc = "done" =>
        LET a == key_args[1]
            b == key_args[2]
        IN /\ (SameQueryText(a.query, b.query)
                  /\ SameTranslations(a.translations, b.translations)
                  /\ SameFilters(a.filters, b.filters)) => key_out[1] = key_out[2]
           /\ ~SameQueryText(a.query, b.query) => key_out[1] # key_out[2]

\* two calls that differ in the query's case and padding, the translation
\* order and the filter key order got the same key
C16_Witness ==
    /\ key_pc = "done"
    /\ key_args[1].query = <<" ", "A">>
    /\ key_args[2].query = <<"a", " ">>
    /\ key_args[1].translations = <<"NIV", "KRV">>
    /\ key_args[2].translations = <<"KRV", "NIV">>
    /\ key_args[1].filters.items = <<<<"testament", "NT">>, <<"genre", "gospel">>>>
    /\ key_args[2].filters.items = <<<<"genre", "gospel">>, <<"testament", "NT">>>>
    /\ key_out[1] = key_out[2]

\* the last call was a get_cached_results that reached the server
GetAnswered == cc_ret.op = "get_cached_results" /\ ~cc_ret.failed

\* C15: after cache_results(F, R, ...) succeeded, get_cached_results(F)
\* returns a response equal to R while the time to live has not elapsed,
\* and None once it has elapsed or the search cache was cleared.  cc_last
\* holds, per F, the last successful write with the time passed since.
\* (Checked under SpecCache.)
C15_CacheRoundTrip ==
    GetAnswered =>
        LET last == cc_ret.expect
        IN /\ (last.kind = "written" /\ last.age < last.ttl) =>
                  cc_ret.ret = Returns(CachedResponses[last.response])
           /\ (last.kind = "written" /\ last.age >= last.ttl) => cc_ret.ret = ReturnsNone
           /\ last.kind = "cleared" => cc_ret.ret = ReturnsNone

\* a response with one result read back one unit of time after it was
\* written with the default time to live
C15_Witness ==
    /\ GetAnswered
    /\ cc_ret.expect.kind = "written"
    /\ cc_ret.expect.ttl = DefaultTtl
    /\ cc_ret.expect.age = DefaultTtl - 1
    /\ cc_ret.ret = Returns(OneResultResponse)

\* a read after the time to live elapsed returned None
C15_ExpiredWitness ==
    /\ GetAnswered
    /\ cc_ret.expect.kind = "written"
    /\ cc_ret.expect.age >= cc_ret.expect.ttl
    /\ cc_ret.ret = ReturnsNone

\* search_metadata["cached"] of the response; a metadata dict without the
\* entry reads as false
CachedFlag(p) ==
    LET md == req[p].response.search_metadata
    IN IF "cached" \in DOMAIN md THEN md.cached ELSE FALSE

\* C21: a response served from the cache has search_metadata.cached true,
\* a freshly computed response has it false.  (Checked under Spec.)
C21_CachedFlagInMetadata ==
    \A p \in Clients :
        Returned(p) => (CachedFlag(p) <=> ServedFromCache(p))

\* the call returned a response that names a search method
HasSearchMethod(p) ==
    Returned(p) /\ "search_method" \in DOMAIN req[p].response.search_metadata

\* full-text search alone gave the call its candidates: in the
\* full-text-only path, or in the hybrid path when vector search on the
\* query and on every expansion gave nothing
OnlyFulltextContributed(p) ==
    IF HybridRan(p)
    THEN /\ FulltextList(req[p]) # <<>>
         /\ VectorList(req[p]) = <<>>
         /\ \A i \in 1..Len(req[p].expanded_queries) :
                ExpansionList(req[p], req[p].fault, i) = <<>>
    ELSE Called(p, "fulltext") /\ req[p].response.results # <<>>

\* C25: search_method reports fusion only when two or more non-empty lists
\* were fused, reports rerank only when the reranker answered, and names a
\* full-text method whenever full-text search alone contributed
\* candidates.  (Checked under SpecSignals.)
C25_SearchMethodReflectsPath ==
    \A p \in Clients :
        HasSearchMethod(p) =>
            /\ SearchMethod(p) \in {"hybrid-rrf", "hybrid-rrf+rerank"} =>
                   /\ Len(req[p].lists) >= 2
                   /\ \A n \in DOMAIN req[p].lists : req[p].lists[n] # <<>>
            /\ SearchMethod(p) \in {"hybrid-rrf+rerank", "semantic+rerank"} =>
                   RerankApplied(p)
            /\ OnlyFulltextContributed(p) =>
                   SearchMethod(p) \in {"full-text", "full-text+rerank"}

\* C27: every response returned, computed or cached, carries
\* cross_references in each result exactly when include_cross_refs is set
\* and original-language data exactly when include_original is set.
\* (Checked under Spec.)
C27_EnrichmentFlagsHonoured ==
    \A p \in Clients :
        Returned(p) =>
            \A n \in DOMAIN req[p].response.results :
                /\ req[p].response.results[n].cross_references = req[p].include_cross_refs
                /\ req[p].response.results[n].original = req[p].include_original

\* C28: a successful rerank only reorders: the call returns
\* min(max_results, number of fused candidates) results, as it would with
\* reranking disabled, in non-increasing rerank score, each of them a fused
\* candidate.  (Checked under SpecSignals.)
C28_RerankOnlyReorders ==
    \A p \in Clients :
        (Returned(p) /\ RerankApplied(p)) =>
            /\ Len(ResultRefs(p)) = Min(req[p].max_results, Len(req[p].merged))
            /\ Range(ResultRefs(p)) \subseteq Range(RefsOf(req[p].merged))
            /\ \A i, j \in DOMAIN ResultRefs(p) :
                   i < j => store.rerank_score[ResultRefs(p)[i]]
                                >= store.rerank_score[ResultRefs(p)[j]]

\* the call names a translation the store has
HasValidTranslation(p) == \E t \in Range(req[p].translations) : t \in TranslationsInDb

\* C26: a call that begins with a populated index and names a valid
\* translation returns a response of the hybrid path (search_method is not
\* "full-text"), also when an identical call ran while the index was
\* empty.  (Checked under Spec.)
C26_PopulatedIndexGivesHybrid ==
    \A p \in Clients :
        (Returned(p) /\ req[p].index_at_start > 0 /\ HasValidTranslation(p)) =>
            /\ HasSearchMethod(p)
            /\ SearchMethod(p) # "full-text"

\* the step is the last step of a call of p that missed the cache, assembled
\* `response` and wrote it
WroteAfterMiss(p, response) ==
    /\ req[p].pc \in {"fulltext", "hybrid"}
    /\ req'[p].pc = "done"
    /\ req'[p].outcome = "returned"
    /\ req'[p].use_cache
    /\ ~req'[p].response.cached_key
    /\ req'[p].response = response

\* C24: a cache entry is created only by a call that missed on its
\* fingerprint and completed assembly, and once present its stored value
\* does not change until the entry expires or is flushed, however the
\* calls of two clients on the same fingerprint interleave.
\* (Checked under SpecConcurrent.)
C24_EntryNeverMutated ==
    [][/\ \A key \in DOMAIN cache' \ DOMAIN cache :
              \E p \in Clients : req[p].cache_key = key /\ WroteAfterMiss(p, cache'[key])
       /\ \A key \in DOMAIN cache \cap DOMAIN cache' : cache'[key] = cache[key]]_vars

\* C22: for each provider, the calls of _check_rate_limit answered True
\* within any span of 60 seconds number at most the provider's limit.
\* admitted holds the times of the admissions less than 60 seconds old.
\* (Checked under SpecRateLimit.)
C22_RollingWindowLimit ==
    \A provider \in Providers : Len(admitted[provider]) <= Rpm[provider]

\* the provider gave the call nothing: no key, rate limited, or failed
\* before its first token
Unavailable(provider) ==
    /\ stream[provider] \in {"no key", "rate limited", "failed"}
    /\ TokensOf(stream, provider) = 0

C23_BothLimitedWitness ==
    /\ stream.pc = "done"
    /\ stream.groq = "rate limited"
    /\ stream.gemini = "rate limited"
    /\ stream.out = <<>>

RECURSIVE Flatten(_)
\* the batches one after the other
Flatten(seqs) == IF seqs = <<>> THEN <<>> ELSE Head(seqs) \o Flatten(Tail(seqs))

\* C29: however submit_request calls and the background processor
\* interleave, the batches taken so far followed by the queue are the
\* requests in submission order, each once (none dropped, none in two
\* batches, FIFO), and a batch holds between one and max_batch_size
\* requests.  (Checked under SpecBatcher.)
C29_EachRequestInOneBatch ==
    /\ Flatten(batcher.batches) \o batcher.queue = [i \in 1..Submitted |-> i]
    /\ \A n \in DOMAIN batcher.batches :
           /\ Len(batcher.batches[n]) >= 1
           /\ Len(batcher.batches[n]) <= MaxBatchSize

\* three requests were queued when the processor woke: a full batch, then
\* the rest
C29_Witness ==
    /\ Len(batcher.batches) = 2
    /\ Len(batcher.batches[1]) = MaxBatchSize
    /\ Len(batcher.batches[2]) >= 1
    /\ Submitted > MaxBatchSize

\* C30: with batching enabled, every submitted request eventually has its
\* completed event set, with a result or an error, and its submit_request
\* returns, also when the batch setup fails, a generation raises, or stop()
\* comes while requests are queued or in flight.
\* (Checked under SpecBatcherFair.)
C30_EveryRequestCompletes ==
    \A r \in Requests :
        [](batch_requests[r].pc = "waiting" =>
              <>(/\ batch_requests[r].pc = "returned"
                 /\ batch_requests[r].completed
                 /\ batch_requests[r].result \/ batch_requests[r].error))

=============================================================================
